---- MODULE Spec2Model ----
(***************************************************************************)
(* A model of the Janggi (Korean chess) rules engine of JanggiGame.py:     *)
(* the JanggiGame orchestrator, the Player carts, the Board with its       *)
(* one-slot buffer for temporary moves, and the seven Piece subclasses.    *)
(*                                                                         *)
(* Python objects are modelled as follows.                                 *)
(*   - A piece object is a piece identifier in 1..32; its immutable        *)
(*     attributes _name and _owner are get_name and get_owner, its         *)
(*     mutable attribute _location is the entry of the function            *)
(*     `location'.  None is the identifier 0.                              *)
(*   - A Python string holding a location is a TLA+ string.                *)
(*   - Board._board, a list of ten lists of nine cells, is a function      *)
(*     [0..9 -> [0..8 -> 0..32]].                                          *)
(*   - Player._cart, a Python list, is a sequence of piece identifiers.    *)
(* The methods of Board that mutate the board take and return a record     *)
(* [board, location, cart, temp] (a "board value"); methods that also      *)
(* return a value return a record with the fields ret and bd.  A board     *)
(* value has three more fields that follow one call and are no part of    *)
(* the program's state: prepared, how many times prep_temp_move was        *)
(* invoked, tries, how many of these temporary moves were not yet undone   *)
(* by undo_temp_move, and nested, whether prep_temp_move was ever invoked  *)
(* with a temporary move pending or the buffer full.                       *)
(***************************************************************************)
EXTENDS Integers, Sequences, FiniteSets, TLC

VARIABLES
    board,           \* Board._board
    location,        \* Piece._location of every piece object
    cart,            \* Player._cart of the blue and of the red player
    temp,            \* Board._temp
    game_state,      \* JanggiGame._game_state
    current_player,  \* JanggiGame._current_player, as that player's colour
    result,          \* what the latest call returned ("none" before the first)
    request,         \* what the latest call asked for, as its caller saw it
    driver,          \* the caller of make_move: a scripted game, or interactive play
    pos,             \* how many moves of the driver's script have been requested
    free             \* how many requests were made after leaving the script

vars == <<board, location, cart, temp, game_state, current_player,
          result, request, driver, pos, free>>

None == 0

Abs(n) == IF n < 0 THEN -n ELSE n

-----------------------------------------------------------------------------
(* Location strings and the location codec.  A Python string is a TLA+     *)
(* string: for a string loc, len(loc) is Len(loc), loc[0] is Head(loc),    *)
(* loc[1] is SubSeq(loc, 2, 2) and loc[1:] is SubSeq(loc, 2, Len(loc)).    *)

column_key == [a |-> 0, b |-> 1, c |-> 2, d |-> 3, e |-> 4,
               f |-> 5, g |-> 6, h |-> 7, i |-> 8]

row_key == ("1" :> 0) @@ ("2" :> 1) @@ ("3" :> 2) @@ ("4" :> 3) @@ ("5" :> 4)
           @@ ("6" :> 5) @@ ("7" :> 6) @@ ("8" :> 7) @@ ("9" :> 8) @@ ("10" :> 9)

\* decode_location that returns the column first.
decode_location_column_first(loc) ==
    IF Len(loc) = 3
    THEN <<column_key[Head(loc)], row_key[SubSeq(loc, 2, Len(loc))]>>
    ELSE <<column_key[Head(loc)], row_key[SubSeq(loc, 2, 2)]>>

\* Board.decode_location and Piece.decode_location (the same code twice):
\* <<row, column>>.  A key that is missing from a dictionary, or an index
\* past the end of the string, leaves it without a value.
decode_location(loc) ==
    IF Len(loc) = 3
    THEN <<row_key[SubSeq(loc, 2, Len(loc))], column_key[Head(loc)]>>
    ELSE <<row_key[SubSeq(loc, 2, 2)], column_key[Head(loc)]>>

encode_column_key == <<"a", "b", "c", "d", "e", "f", "g", "h", "i">>

encode_row_key == <<"1", "2", "3", "4", "5", "6", "7", "8", "9", "10">>

\* Board.encode_location and Piece.encode_location; the Python dictionaries
\* are keyed from 0, the sequences here from 1.
encode_location(row, column) ==
    encode_column_key[column + 1] \o encode_row_key[row + 1]

\* The 90 location strings "a1" .. "i10" of the squares of the board.
Squares == { encode_location(row, column) : row \in 0..9, column \in 0..8 }

-----------------------------------------------------------------------------
(* The pieces of the opening setup, in the order in which initialize_board *)
(* scans the board and adds them to the carts.                             *)

\* Piece.get_name: the _name each piece object is constructed with.
get_name == <<"CH", "EL", "HO", "GD", "GD", "EL", "HO", "CH",
              "GN",
              "CA", "CA",
              "SD", "SD", "SD", "SD", "SD",
              "SD", "SD", "SD", "SD", "SD",
              "CA", "CA",
              "GN",
              "CH", "EL", "HO", "GD", "GD", "EL", "HO", "CH">>

\* The square initialize_board puts each piece object on.
InitialLayout == <<"a1", "b1", "c1", "d1", "f1", "g1", "h1", "i1",
                   "e2",
                   "b3", "h3",
                   "a4", "c4", "e4", "g4", "i4",
                   "a7", "c7", "e7", "g7", "i7",
                   "b8", "h8",
                   "e9",
                   "a10", "b10", "c10", "d10", "f10", "g10", "h10", "i10">>

\* The piece objects: initialize_board constructs thirty-two.
PieceIds == 1..32

\* Piece.get_owner, as the owner's colour: initialize_board constructs the
\* sixteen pieces of rows 1 to 4 for red, the others for blue.
get_owner == [p \in PieceIds |-> IF p <= 16 THEN "red" ELSE "blue"]

Colors == {"blue", "red"}

\* Piece._palace
palace == {"d8", "d9", "d10", "e8", "e9", "e10", "f8", "f9", "f10",
           "d1", "d2", "d3", "e1", "e2", "e3", "f1", "f2", "f3"}

palace_corners == {"d1", "f1", "d3", "f3", "d8", "f8", "d10", "f10"}

palace_centers == {"e2", "e9"}

blue_palace_corners == {"d8", "f8", "d10", "f10"}

red_palace_corners == {"d1", "f1", "d3", "f3"}

red_palace_center == "e2"

blue_palace_center == "e9"

\* Board.get_occupant
get_occupant(bd, loc) ==
    LET rc == decode_location(loc) IN bd.board[rc[1]][rc[2]]


-----------------------------------------------------------------------------
(* The movement rules: is_legal and move_path of the seven Piece           *)
(* subclasses.  `self' is the piece object the method is called on and bd  *)
(* the board value it reads.  In each, the local operator `moving' is the   *)
(* method from its decode_location calls on, `from' and `to' being what    *)
(* they gave for the source and the destination.                           *)

\* General.is_legal without its test of the palace.
General_is_legal_anywhere(bd, self, source, destination) ==
    LET moving(from, to) ==
            LET destination_square == bd.board[to[1]][to[2]]
            IN  IF destination_square # None
                   /\ get_owner[self] = get_owner[destination_square]
                THEN FALSE
                ELSE IF Abs(to[1] - from[1]) > 1 \/ Abs(to[2] - from[2]) > 1
                THEN FALSE
                ELSE IF Abs(to[1] - from[1]) = 1 /\ Abs(to[2] - from[2]) = 1
                THEN IF source \in palace_corners
                     THEN destination \in palace_centers
                     ELSE IF source \in palace_centers
                     THEN destination \in palace_corners
                     ELSE FALSE
                ELSE TRUE
    IN  moving(decode_location(source), decode_location(destination))

\* General.is_legal
General_is_legal(bd, self, source, destination) ==
    LET moving(from, to) ==
            LET from_row == from[1]
                from_col == from[2]
                to_row == to[1]
                to_col == to[2]
                destination_square == bd.board[to_row][to_col]
                destination_location == encode_location(to_row, to_col)
            IN  IF destination_square # None
                   /\ get_owner[self] = get_owner[destination_square]
                THEN FALSE
                ELSE IF destination_location \notin palace
                THEN FALSE
                ELSE IF Abs(to_row - from_row) > 1 \/ Abs(to_col - from_col) > 1
                THEN FALSE
                ELSE IF Abs(to_row - from_row) = 1 /\ Abs(to_col - from_col) = 1
                THEN IF source \in palace_corners
                     THEN destination \in palace_centers
                     ELSE IF source \in palace_centers
                     THEN destination \in palace_corners
                     ELSE FALSE
                ELSE TRUE
    IN  moving(decode_location(source), decode_location(destination))

\* General.move_path: the piece's _move_path, which nothing ever appends to.
General_move_path(source, destination) == <<>>

\* Guard.is_legal
Guard_is_legal(bd, self, source, destination) ==
    LET moving(from, to) ==
            LET from_row == from[1]
                from_col == from[2]
                to_row == to[1]
                to_col == to[2]
                destination_piece == bd.board[to_row][to_col]
            IN  IF destination_piece # None
                   /\ get_owner[self] = get_owner[destination_piece]
                THEN FALSE
                ELSE IF destination \notin palace
                THEN FALSE
                ELSE IF Abs(to_row - from_row) > 1 \/ Abs(to_col - from_col) > 1
                THEN FALSE
                ELSE IF Abs(to_row - from_row) = 1 /\ Abs(to_col - from_col) = 1
                THEN IF source \in palace_corners
                     THEN destination \in palace_centers
                     ELSE IF source \in palace_centers
                     THEN destination \in palace_corners
                     ELSE FALSE
                ELSE TRUE
    IN  moving(decode_location(source), decode_location(destination))

\* Guard.move_path
Guard_move_path(source, destination) == <<>>

\* Elephant.move_path that gives the orthogonal step only.
Elephant_move_path_one_step(source, destination) ==
    LET moving(from, to) ==
            IF Abs(to[1] - from[1]) = 3
            THEN <<encode_location(from[1] + (to[1] - from[1]) \div 3, from[2])>>
            ELSE IF Abs(to[2] - from[2]) = 3
            THEN <<encode_location(from[1], from[2] + (to[2] - from[2]) \div 3)>>
            ELSE <<>>
    IN  moving(decode_location(source), decode_location(destination))

\* Elephant.move_path
Elephant_move_path(source, destination) ==
    LET moving(from, to) ==
            LET from_row == from[1]
                from_col == from[2]
                to_row == to[1]
                to_col == to[2]
                up == IF to_row - from_row = -3
                      THEN << encode_location(from_row - 1, from_col),
                              IF to_col - from_col = 2
                              THEN encode_location(from_row - 2, from_col + 1)
                              ELSE encode_location(from_row - 2, from_col - 1) >>
                      ELSE <<>>
                down == IF to_row - from_row = 3
                        THEN << encode_location(from_row + 1, from_col),
                                IF to_col - from_col = 2
                                THEN encode_location(from_row + 2, from_col + 1)
                                ELSE encode_location(from_row + 2, from_col - 1) >>
                        ELSE <<>>
                right == IF to_col - from_col = 3
                         THEN << encode_location(from_row, from_col + 1),
                                 IF to_row - from_row = 2
                                 THEN encode_location(from_row + 1, from_col + 2)
                                 ELSE encode_location(from_row - 1, from_col + 2) >>
                         ELSE <<>>
                left == IF to_col - from_col = -3
                        THEN << encode_location(from_row, from_col - 1),
                                IF to_row - from_row = 2
                                THEN encode_location(from_row + 1, from_col - 2)
                                ELSE encode_location(from_row - 1, from_col - 2) >>
                        ELSE <<>>
            IN  up \o down \o right \o left
    IN  moving(decode_location(source), decode_location(destination))

\* Elephant.is_legal
Elephant_is_legal(bd, self, source, destination) ==
    LET moving(from, to, path) ==
            LET from_row == from[1]
                from_col == from[2]
                to_row == to[1]
                to_col == to[2]
                destination_piece == bd.board[to_row][to_col]
            IN  IF destination_piece # None
                   /\ get_owner[self] = get_owner[destination_piece]
                THEN FALSE
                ELSE IF Abs(to_row - from_row) = 3 /\ Abs(to_col - from_col) = 2
                THEN \A k \in 1..Len(path) : get_occupant(bd, path[k]) = None
                ELSE IF Abs(to_row - from_row) = 2 /\ Abs(to_col - from_col) = 3
                THEN \A k \in 1..Len(path) : get_occupant(bd, path[k]) = None
                ELSE FALSE
    IN  moving(decode_location(source), decode_location(destination),
                Elephant_move_path(source, destination))

\* Horse.move_path that gives no square.
Horse_move_path_none(source, destination) == <<>>

\* Horse.move_path
Horse_move_path(source, destination) ==
    LET moving(from, to) ==
            LET from_row == from[1]
                from_col == from[2]
                to_row == to[1]
                to_col == to[2]
                up == IF to_row - from_row = -2
                      THEN <<encode_location(from_row - 1, from_col)>> ELSE <<>>
                down == IF to_row - from_row = 2
                        THEN <<encode_location(from_row + 1, from_col)>> ELSE <<>>
                right == IF to_col - from_col = 2
                         THEN <<encode_location(from_row, from_col + 1)>> ELSE <<>>
                left == IF to_col - from_col = -2
                        THEN <<encode_location(from_row, from_col - 1)>> ELSE <<>>
            IN  up \o down \o right \o left
    IN  moving(decode_location(source), decode_location(destination))

\* Horse.is_legal without its test of a friendly piece on the destination.
Horse_is_legal_onto_friend(bd, self, source, destination) ==
    LET moving(from, to, path) ==
            IF {Abs(to[1] - from[1]), Abs(to[2] - from[2])} = {1, 2}
            THEN \A k \in 1..Len(path) : get_occupant(bd, path[k]) = None
            ELSE FALSE
    IN  moving(decode_location(source), decode_location(destination),
                Horse_move_path(source, destination))

\* Horse.is_legal
Horse_is_legal(bd, self, source, destination) ==
    LET moving(from, to, path) ==
            LET from_row == from[1]
                from_col == from[2]
                to_row == to[1]
                to_col == to[2]
                destination_piece == bd.board[to_row][to_col]
            IN  IF destination_piece # None
                   /\ get_owner[self] = get_owner[destination_piece]
                THEN FALSE
                ELSE IF Abs(to_row - from_row) = 2 /\ Abs(to_col - from_col) = 1
                THEN \A k \in 1..Len(path) : get_occupant(bd, path[k]) = None
                ELSE IF Abs(to_row - from_row) = 1 /\ Abs(to_col - from_col) = 2
                THEN \A k \in 1..Len(path) : get_occupant(bd, path[k]) = None
                ELSE FALSE
    IN  moving(decode_location(source), decode_location(destination),
                Horse_move_path(source, destination))

\* The squares strictly between two squares of one row or of one column, from
\* the source on: the "if move is orthogonal" part of Chariot.move_path and of
\* Cannon.move_path.
orthogonal_path(from_row, from_col, to_row, to_col) ==
    LET horizontal ==
            IF from_row = to_row
            THEN IF to_col > from_col
                 THEN [k \in 1..(to_col - from_col - 1) |->
                          encode_location(from_row, from_col + k)]
                 ELSE [k \in 1..(from_col - to_col - 1) |->
                          encode_location(from_row, from_col - k)]
            ELSE <<>>
        vertical ==
            IF from_col = to_col
            THEN IF to_row > from_row
                 THEN [k \in 1..(to_row - from_row - 1) |->
                          encode_location(from_row + k, from_col)]
                 ELSE [k \in 1..(from_row - to_row - 1) |->
                          encode_location(from_row - k, from_col)]
            ELSE <<>>
    IN  horizontal \o vertical

\* Chariot.move_path that lists the squares of a rank or file from the
\* destination back to the source.
Chariot_move_path_backward(source, destination) ==
    LET moving(from, to) ==
            IF source \in palace_corners /\ destination \in palace_corners
               /\ Abs(to[1] - from[1]) = Abs(to[2] - from[2])
            THEN IF source \in blue_palace_corners THEN <<"e9">> ELSE <<"e2">>
            ELSE IF (source \in palace_corners /\ destination \in palace_centers)
                    \/ (destination \in palace_corners /\ source \in palace_centers)
            THEN <<>>
            ELSE orthogonal_path(to[1], to[2], from[1], from[2])
    IN  moving(decode_location(source), decode_location(destination))

\* Chariot.move_path
Chariot_move_path(source, destination) ==
    LET moving(from, to) ==
            LET from_row == from[1]
                from_col == from[2]
                to_row == to[1]
                to_col == to[2]
            IN  IF source \in palace_corners /\ destination \in palace_corners
                   /\ Abs(to_row - from_row) = Abs(to_col - from_col)
                THEN IF source \in blue_palace_corners THEN <<"e9">> ELSE <<"e2">>
                ELSE IF (source \in palace_corners /\ destination \in palace_centers)
                        \/ (destination \in palace_corners /\ source \in palace_centers)
                THEN <<>>
                ELSE orthogonal_path(from_row, from_col, to_row, to_col)
    IN  moving(decode_location(source), decode_location(destination))

\* The cascade without its palace moves: no diagonal move is allowed.
palace_diagonal_never(source, destination) == FALSE

\* The "diagonal moves within the palace" cascade that ends Chariot.is_legal
\* and Cannon.is_legal, for a source and a destination that differ in row and
\* in column.
palace_diagonal(source, destination) ==
    IF source \in palace_corners
    THEN IF source \in blue_palace_corners /\ destination \in blue_palace_corners
         THEN TRUE
         ELSE IF source \in blue_palace_corners /\ destination = blue_palace_center
         THEN TRUE
         ELSE IF source \in red_palace_corners /\ destination \in red_palace_corners
         THEN TRUE
         ELSE IF source \in red_palace_corners /\ destination = red_palace_center
         THEN TRUE
         ELSE FALSE
    ELSE IF source = blue_palace_center
    THEN destination \in blue_palace_corners
    ELSE IF source = red_palace_center
    THEN destination \in red_palace_corners
    ELSE FALSE

\* Chariot.is_legal
Chariot_is_legal(bd, self, source, destination) ==
    LET moving(from, to, path) ==
            LET from_row == from[1]
                from_col == from[2]
                to_row == to[1]
                to_col == to[2]
                destination_piece == bd.board[to_row][to_col]
            IN  IF destination_piece # None
                   /\ get_owner[self] = get_owner[destination_piece]
                THEN FALSE
                ELSE IF \E k \in 1..Len(path) : get_occupant(bd, path[k]) # None
                THEN FALSE
                ELSE IF from_row # to_row /\ from_col # to_col
                THEN palace_diagonal(source, destination)
                ELSE TRUE
    IN  moving(decode_location(source), decode_location(destination),
                Chariot_move_path(source, destination))

\* Cannon.move_path that knows the squares of ranks and files only, not the
\* centre of a palace between two of its corners.
Cannon_move_path_orthogonal(source, destination) ==
    LET moving(from, to) == orthogonal_path(from[1], from[2], to[1], to[2])
    IN  moving(decode_location(source), decode_location(destination))

\* Cannon.move_path
Cannon_move_path(source, destination) ==
    LET moving(from, to) ==
            LET from_row == from[1]
                from_col == from[2]
                to_row == to[1]
                to_col == to[2]
            IN  IF source \in palace_corners /\ destination \in palace_corners
                   /\ Abs(to_row - from_row) = Abs(to_col - from_col)
                THEN IF source \in blue_palace_corners THEN <<"e9">> ELSE <<"e2">>
                ELSE IF (source \in palace_corners /\ destination \in palace_centers)
                        \/ (destination \in palace_corners /\ source \in palace_centers)
                THEN <<>>
                ELSE orthogonal_path(from_row, from_col, to_row, to_col)
    IN  moving(decode_location(source), decode_location(destination))

\* Cannon.is_legal
Cannon_is_legal(bd, self, source, destination) ==
    LET moving(from, to, path) ==
            LET from_row == from[1]
                from_col == from[2]
                to_row == to[1]
                to_col == to[2]
                destination_piece == bd.board[to_row][to_col]
                jumps == Cardinality({k \in 1..Len(path) :
                                         get_occupant(bd, path[k]) # None})
                cannon_in_path ==
                    \E k \in 1..Len(path) :
                        /\ get_occupant(bd, path[k]) # None
                        /\ get_name[get_occupant(bd, path[k])] = "CA"
            IN  IF destination_piece # None
                   /\ get_owner[self] = get_owner[destination_piece]
                THEN FALSE
                ELSE IF destination_piece # None /\ get_name[destination_piece] = "CA"
                THEN FALSE
                ELSE IF jumps = 0 \/ jumps > 1
                THEN FALSE
                ELSE IF cannon_in_path
                THEN FALSE
                ELSE IF from_row # to_row /\ from_col # to_col
                THEN palace_diagonal(source, destination)
                ELSE TRUE
    IN  moving(decode_location(source), decode_location(destination),
                Cannon_move_path(source, destination))

\* The Soldier's rule with the file step of blue for both colours.
Soldier_is_legal_as_blue(bd, self, source, destination) ==
    LET moving(from, to) ==
            LET destination_piece == bd.board[to[1]][to[2]]
            IN  IF destination_piece # None
                   /\ get_owner[self] = get_owner[destination_piece]
                THEN FALSE
                ELSE IF from[1] = to[1] /\ Abs(to[2] - from[2]) # 1
                THEN FALSE
                ELSE IF from[2] = to[2] /\ to[1] - from[1] # -1
                THEN FALSE
                ELSE IF from[1] # to[1] /\ from[2] # to[2]
                THEN \/ source \in {"d3", "f3"} /\ destination = "e2"
                     \/ source = "e2" /\ destination \in {"d1", "f1"}
                     \/ source \in {"d8", "f8"} /\ destination = "e9"
                     \/ source = "e9" /\ destination \in {"d10", "f10"}
                ELSE TRUE
    IN  moving(decode_location(source), decode_location(destination))

\* Soldier.is_legal
Soldier_is_legal(bd, self, source, destination) ==
    LET moving(from, to) ==
            LET from_row == from[1]
                from_col == from[2]
                to_row == to[1]
                to_col == to[2]
                destination_piece == bd.board[to_row][to_col]
            IN  IF destination_piece # None
                   /\ get_owner[self] = get_owner[destination_piece]
                THEN FALSE
                ELSE IF from_row = to_row /\ Abs(to_col - from_col) # 1
                THEN FALSE
                ELSE IF from_col = to_col /\ get_owner[self] = "blue"
                        /\ to_row - from_row # -1
                THEN FALSE
                ELSE IF from_col = to_col /\ get_owner[self] # "blue"
                        /\ to_row - from_row # 1
                THEN FALSE
                ELSE IF from_row # to_row /\ from_col # to_col
                THEN IF source = "d3" \/ source = "f3"
                     THEN destination = "e2"
                     ELSE IF source = "e2"
                     THEN destination = "d1" \/ destination = "f1"
                     ELSE IF source = "d8" \/ source = "f8"
                     THEN destination = "e9"
                     ELSE IF source = "e9"
                     THEN destination = "d10" \/ destination = "f10"
                     ELSE FALSE
                ELSE TRUE
    IN  moving(decode_location(source), decode_location(destination))

\* Soldier.move_path
Soldier_move_path(source, destination) == <<>>

\* piece.is_legal(source, destination): Python's dispatch on the class of the
\* piece object, which the piece's name determines.
Piece_is_legal(bd, self, source, destination) ==
    CASE get_name[self] = "GN" -> General_is_legal(bd, self, source, destination)
      [] get_name[self] = "GD" -> Guard_is_legal(bd, self, source, destination)
      [] get_name[self] = "EL" -> Elephant_is_legal(bd, self, source, destination)
      [] get_name[self] = "HO" -> Horse_is_legal(bd, self, source, destination)
      [] get_name[self] = "CH" -> Chariot_is_legal(bd, self, source, destination)
      [] get_name[self] = "CA" -> Cannon_is_legal(bd, self, source, destination)
      [] get_name[self] = "SD" -> Soldier_is_legal(bd, self, source, destination)

\* piece.move_path(source, destination), dispatched likewise.
Piece_move_path(self, source, destination) ==
    CASE get_name[self] = "GN" -> General_move_path(source, destination)
      [] get_name[self] = "GD" -> Guard_move_path(source, destination)
      [] get_name[self] = "EL" -> Elephant_move_path(source, destination)
      [] get_name[self] = "HO" -> Horse_move_path(source, destination)
      [] get_name[self] = "CH" -> Chariot_move_path(source, destination)
      [] get_name[self] = "CA" -> Cannon_move_path(source, destination)
      [] get_name[self] = "SD" -> Soldier_move_path(source, destination)

-----------------------------------------------------------------------------
(* Player and Board.  A call that raises in Python (an attribute of None,  *)
(* a missing dictionary key) has no value here: the operator is undefined  *)
(* on such arguments and TLC stops if it ever evaluates one.               *)

\* The opponent picked by "if player.get_color() == 'blue'" in is_in_check
\* and is_in_checkmate, and the other player of toggle_players.
other_player(player) == IF player = "blue" THEN "red" ELSE "blue"

\* Player.add_piece
add_piece(bd, player, piece) ==
    [bd EXCEPT !.cart[player] = Append(@, piece)]

\* list.remove(x): the list without its first item equal to x.
list_remove(list, x) ==
    LET first == CHOOSE k \in 1..Len(list) :
                     list[k] = x /\ \A j \in 1..(k - 1) : list[j] # x
    IN  SubSeq(list, 1, first - 1) \o SubSeq(list, first + 1, Len(list))

\* remove_piece that leaves the cart as it is.
remove_piece_kept(bd, player, piece) == bd

\* Player.remove_piece
remove_piece(bd, player, piece) ==
    IF \E k \in 1..Len(bd.cart[player]) : bd.cart[player][k] = piece
    THEN [bd EXCEPT !.cart[player] = list_remove(@, piece)]
    ELSE bd

\* get_general that takes the first piece of the cart for the General.
get_general_first(bd, player) ==
    IF Len(bd.cart[player]) = 0 THEN None ELSE bd.cart[player][1]

\* Player.get_general: the last General of the cart, None without one.
get_general(bd, player) ==
    LET generals == {k \in 1..Len(bd.cart[player]) :
                        get_name[bd.cart[player][k]] = "GN"}
    IN  IF generals = {} THEN None
        ELSE bd.cart[player][CHOOSE k \in generals : \A j \in generals : j <= k]

\* Board.prep_temp_move
prep_temp_move(bd, destination) ==
    [bd EXCEPT !.temp = get_occupant(bd, destination),
               !.nested = @ \/ bd.tries > 0 \/ bd.temp # None,
               !.tries = @ + 1,
               !.prepared = @ + 1]

\* move_piece that leaves the moved piece on its source square as well.
move_piece_source_kept(bd, source, destination) ==
    LET moving(src, dst) ==
            LET source_piece == bd.board[src[1]][src[2]]
                dest_piece == bd.board[dst[1]][dst[2]]
                placed(captured) ==
                    [captured EXCEPT !.board[dst[1]][dst[2]] = source_piece,
                                     !.location[source_piece] = destination]
            IN  placed(IF dest_piece # None
                       THEN remove_piece(bd, get_owner[dest_piece], dest_piece)
                       ELSE bd)
    IN  moving(decode_location(source), decode_location(destination))

\* Board.move_piece; src and dst are what decode_location gave.
move_piece(bd, source, destination) ==
    LET moving(src, dst) ==
            LET source_piece == bd.board[src[1]][src[2]]
                dest_piece == bd.board[dst[1]][dst[2]]
                placed(captured) ==
                    [captured EXCEPT !.board[dst[1]][dst[2]] = source_piece,
                                     !.location[source_piece] = destination,
                                     !.board[src[1]][src[2]] = None]
            IN  placed(IF dest_piece # None
                       THEN IF get_owner[dest_piece] = "blue"
                            THEN remove_piece(bd, "blue", dest_piece)
                            ELSE remove_piece(bd, "red", dest_piece)
                       ELSE bd)
    IN  moving(decode_location(source), decode_location(destination))

\* undo_temp_move that leaves the captured piece in the buffer.
undo_temp_move_buffer_kept(bd, source, destination) ==
    LET moving(src, dst) ==
            LET temp_piece == bd.temp
                moved == bd.board[dst[1]][dst[2]]
                restored == [bd EXCEPT !.board[src[1]][src[2]] = moved,
                                       !.location[moved] = source,
                                       !.board[dst[1]][dst[2]] = temp_piece]
            IN  IF temp_piece # None
                THEN add_piece(restored, get_owner[temp_piece], temp_piece)
                ELSE restored
    IN  moving(decode_location(source), decode_location(destination))

\* Board.undo_temp_move
undo_temp_move(bd, source, destination) ==
    LET moving(src, dst) ==
            LET temp_piece == bd.temp
                moved == bd.board[dst[1]][dst[2]]
                restored == [bd EXCEPT !.board[src[1]][src[2]] = moved,
                                       !.location[moved] = source,
                                       !.board[dst[1]][dst[2]] = temp_piece]
                readded == IF temp_piece # None
                           THEN add_piece(restored, get_owner[temp_piece], temp_piece)
                           ELSE restored
            IN  [readded EXCEPT !.temp = None, !.tries = @ - 1]
    IN  moving(decode_location(source), decode_location(destination))

\* is_in_check that never finds the player in check.
is_in_check_never(bd, player) == FALSE

\* Board.is_in_check
is_in_check(bd, player) ==
    LET opponent == other_player(player)
        general_location == bd.location[get_general(bd, player)]
    IN  \E k \in 1..Len(bd.cart[opponent]) :
            LET piece == bd.cart[opponent][k]
            IN  Piece_is_legal(bd, piece, bd.location[piece], general_location)

\* is_legal that asks the piece's own rule only, without trying the move.
Board_is_legal_by_rule(bd, source, destination) ==
    LET source_piece == get_occupant(bd, source)
    IN  [ret |-> Piece_is_legal(bd, source_piece, source, destination), bd |-> bd]

\* Board.is_legal: the returned value ret and the board value bd it leaves.
Board_is_legal(bd, source, destination) ==
    LET source_piece == get_occupant(bd, source)
        source_player == get_owner[source_piece]
        \* from "if self.is_in_check(source_player)" on, moved being the board
        \* value after prep_temp_move and move_piece
        tried(moved) ==
            IF is_in_check(moved, source_player)
            THEN [ret |-> FALSE, bd |-> undo_temp_move(moved, source, destination)]
            ELSE [ret |-> TRUE, bd |-> undo_temp_move(moved, source, destination)]
    IN  IF Piece_is_legal(bd, source_piece, source, destination)
        THEN tried(move_piece(prep_temp_move(bd, destination), source, destination))
        ELSE [ret |-> FALSE, bd |-> bd]

RECURSIVE populate_attackers(_, _, _, _, _)
\* The loop "for piece in opponent.get_cart()" of is_in_checkmate from the
\* index-th item of the cart on: the attacker list and the board value left.
populate_attackers(bd, opponent, gen_loc, index, attacker_list) ==
    IF index > Len(bd.cart[opponent])
    THEN [list |-> attacker_list, bd |-> bd]
    ELSE LET piece == bd.cart[opponent][index]
             \* the rest of the loop, legal being what is_legal gave
             rest(legal) ==
                 populate_attackers(legal.bd, opponent, gen_loc, index + 1,
                     IF legal.ret THEN Append(attacker_list, piece) ELSE attacker_list)
         IN  rest(Board_is_legal(bd, bd.location[piece], gen_loc))

RECURSIVE some_piece_reaches(_, _, _, _)
\* The loop "for piece in player.get_cart(): if self.is_legal(piece's
\* location, square): return False" of is_in_checkmate from the index-th item
\* of the cart on: whether it returned (found), and the board value left.
some_piece_reaches(bd, player, square, index) ==
    IF index > Len(bd.cart[player])
    THEN [found |-> FALSE, bd |-> bd]
    ELSE LET piece == bd.cart[player][index]
             rest(legal) ==
                 IF legal.ret
                 THEN [found |-> TRUE, bd |-> legal.bd]
                 ELSE some_piece_reaches(legal.bd, player, square, index + 1)
         IN  rest(Board_is_legal(bd, bd.location[piece], square))

RECURSIVE some_block(_, _, _, _)
\* The loop "for square in path" of is_in_checkmate from the index-th square on.
some_block(bd, player, path, index) ==
    IF index > Len(path)
    THEN [found |-> FALSE, bd |-> bd]
    ELSE LET rest(reached) ==
                 IF reached.found
                 THEN reached
                 ELSE some_block(reached.bd, player, path, index + 1)
         IN  rest(some_piece_reaches(bd, player, path[index], 1))

RECURSIVE some_resolution(_, _, _, _, _)
\* The loop "for attacker in attacker_list" of is_in_checkmate from the
\* index-th attacker on: whether a capture or a block made it return False.
some_resolution(bd, player, gen_loc, attacker_list, index) ==
    IF index > Len(attacker_list)
    THEN [found |-> FALSE, bd |-> bd]
    ELSE LET attacker == attacker_list[index]
             \* after the blocking loops, block being what they gave
             blocked(block) ==
                 IF block.found
                 THEN block
                 ELSE some_resolution(block.bd, player, gen_loc, attacker_list,
                                      index + 1)
             \* after the capturing loop, capture being what it gave
             captured(capture) ==
                 IF capture.found
                 THEN capture
                 ELSE blocked(some_block(capture.bd, player,
                          Piece_move_path(attacker, capture.bd.location[attacker],
                                          gen_loc), 1))
         IN  captured(some_piece_reaches(bd, player, bd.location[attacker], 1))

RECURSIVE some_escape_not_undone(_, _, _, _, _, _)
\* The loop over the palace that returns without undoing the step that got
\* the General out of check.
some_escape_not_undone(bd, player, general, gen_loc, palace_list, index) ==
    IF index > Len(palace_list)
    THEN [found |-> FALSE, bd |-> bd]
    ELSE LET square == palace_list[index]
             tried(moved) ==
                 IF ~is_in_check(moved, player)
                 THEN [found |-> TRUE, bd |-> moved]
                 ELSE some_escape_not_undone(undo_temp_move(moved, gen_loc, square),
                                             player, general, gen_loc, palace_list,
                                             index + 1)
         IN  IF General_is_legal(bd, general, gen_loc, square)
             THEN tried(move_piece(prep_temp_move(bd, square), gen_loc, square))
             ELSE some_escape_not_undone(bd, player, general, gen_loc, palace_list,
                                         index + 1)

RECURSIVE some_escape_nested(_, _, _, _, _, _)
\* The loop over the palace that, having prepared its temporary move, asks
\* Board.is_legal about the General's step instead of trying it itself.
some_escape_nested(bd, player, general, gen_loc, palace_list, index) ==
    IF index > Len(palace_list)
    THEN [found |-> FALSE, bd |-> bd]
    ELSE LET square == palace_list[index]
             tried(legal) ==
                 IF legal.ret
                 THEN [found |-> TRUE, bd |-> legal.bd]
                 ELSE some_escape_nested(legal.bd, player, general, gen_loc,
                                         palace_list, index + 1)
         IN  IF General_is_legal(bd, general, gen_loc, square)
             THEN tried(Board_is_legal(prep_temp_move(bd, square), gen_loc, square))
             ELSE some_escape_nested(bd, player, general, gen_loc, palace_list,
                                     index + 1)

RECURSIVE some_escape(_, _, _, _, _, _)
\* The loop "for square in palace" of is_in_checkmate from the index-th
\* square of the defender's palace on.
some_escape(bd, player, general, gen_loc, palace_list, index) ==
    IF index > Len(palace_list)
    THEN [found |-> FALSE, bd |-> bd]
    ELSE LET square == palace_list[index]
             \* from "if not self.is_in_check(player)" on, moved being the
             \* board value after prep_temp_move and move_piece
             tried(moved) ==
                 IF ~is_in_check(moved, player)
                 THEN [found |-> TRUE, bd |-> undo_temp_move(moved, gen_loc, square)]
                 ELSE some_escape(undo_temp_move(moved, gen_loc, square), player,
                                  general, gen_loc, palace_list, index + 1)
         IN  IF General_is_legal(bd, general, gen_loc, square)
             THEN tried(move_piece(prep_temp_move(bd, square), gen_loc, square))
             ELSE some_escape(bd, player, general, gen_loc, palace_list, index + 1)

\* is_in_checkmate that never reports a mate.
is_in_checkmate_never(bd, player) == [ret |-> FALSE, bd |-> bd]

\* is_in_checkmate that reports a mate without looking at the board.
is_in_checkmate_always(bd, player) == [ret |-> TRUE, bd |-> bd]

\* is_in_checkmate that reports a mate whenever the player is in check.
is_in_checkmate_on_check(bd, player) ==
    [ret |-> is_in_check(bd, player), bd |-> bd]

\* Board.is_in_checkmate: the returned value ret and the board value bd it leaves.
is_in_checkmate(bd, player) ==
    IF ~is_in_check(bd, player)
    THEN [ret |-> FALSE, bd |-> bd]
    ELSE LET opponent == other_player(player)
             palace_list ==
                 IF player = "blue"
                 THEN <<"d8", "d9", "d10", "e8", "e9", "e10", "f8", "f9", "f10">>
                 ELSE <<"d1", "d2", "d3", "e1", "e2", "e3", "f1", "f2", "f3">>
             general == get_general(bd, player)
             gen_loc == bd.location[general]
             \* after the loop over the palace, escape being what it gave
             escaped(escape) ==
                 IF escape.found
                 THEN [ret |-> FALSE, bd |-> escape.bd]
                 ELSE [ret |-> TRUE, bd |-> escape.bd]
             \* after the loop over the attackers, resolution being what it gave
             resolved(resolution) ==
                 IF resolution.found
                 THEN [ret |-> FALSE, bd |-> resolution.bd]
                 ELSE escaped(some_escape(resolution.bd, player, general, gen_loc,
                                          palace_list, 1))
             \* after the attacker list is populated
             populated(attackers) ==
                 resolved(some_resolution(attackers.bd, player, gen_loc,
                                          attackers.list, 1))
         IN  populated(populate_attackers(bd, opponent, gen_loc, 1, <<>>))

-----------------------------------------------------------------------------
(* JanggiGame.  A game value is a record of the board value bd, the        *)
(* game_state and the current_player.                                      *)

\* toggle_players that hands the turn to red whoever holds it.
toggle_players_to_red(game) ==
    [game EXCEPT !.current_player = "red"]

\* toggle_players that leaves the turn with the player who moved.
toggle_players_kept(game) == game

\* JanggiGame.toggle_players
toggle_players(game) ==
    IF game.current_player = "blue"
    THEN [game EXCEPT !.current_player = "red"]
    ELSE [game EXCEPT !.current_player = "blue"]

\* JanggiGame.is_in_check that never reports a check.
JanggiGame_is_in_check_never(game, color) == FALSE

\* JanggiGame.is_in_check
JanggiGame_is_in_check(game, color) ==
    IF color = "blue"
    THEN is_in_check(game.bd, "blue")
    ELSE is_in_check(game.bd, "red")

\* make_move without its first test, the one of the game state.
make_move_after_end(game, source, destination) ==
    IF source = destination
    THEN IF JanggiGame_is_in_check(game, game.current_player)
         THEN [ret |-> "False", game |-> game]
         ELSE [ret |-> "True", game |-> toggle_players(game)]
    ELSE IF get_occupant(game.bd, source) = None
    THEN [ret |-> "False", game |-> game]
    ELSE IF get_owner[get_occupant(game.bd, source)] # game.current_player
    THEN [ret |-> "False", game |-> game]
    ELSE LET \* after is_in_checkmate, toggled being the game value it was
             \* called in and mate what it gave
             checked(toggled, mate) ==
                 IF mate.ret
                 THEN IF toggled.current_player = "blue"
                      THEN [ret |-> "True",
                            game |-> [toggled EXCEPT !.bd = mate.bd,
                                                     !.game_state = "RED_WON"]]
                      ELSE [ret |-> "True",
                            game |-> [toggled EXCEPT !.bd = mate.bd,
                                                     !.game_state = "BLUE_WON"]]
                 ELSE [ret |-> "True", game |-> [toggled EXCEPT !.bd = mate.bd]]
             \* after move_piece and toggle_players
             moved(toggled) ==
                 checked(toggled, is_in_checkmate(toggled.bd, toggled.current_player))
             \* after Board.is_legal, legal being what it gave
             decided(legal) ==
                 IF legal.ret
                 THEN moved(toggle_players(
                          [game EXCEPT !.bd = move_piece(legal.bd, source, destination)]))
                 ELSE [ret |-> "False", game |-> [game EXCEPT !.bd = legal.bd]]
         IN  decided(Board_is_legal(game.bd, source, destination))

\* make_move without the test of the source piece's owner.
make_move_any_owner(game, source, destination) ==
    IF game.game_state # "UNFINISHED"
    THEN [ret |-> "False", game |-> game]
    ELSE IF source = destination
    THEN IF JanggiGame_is_in_check(game, game.current_player)
         THEN [ret |-> "False", game |-> game]
         ELSE [ret |-> "True", game |-> toggle_players(game)]
    ELSE IF get_occupant(game.bd, source) = None
    THEN [ret |-> "False", game |-> game]
    ELSE LET \* after is_in_checkmate, toggled being the game value it was
             \* called in and mate what it gave
             checked(toggled, mate) ==
                 IF mate.ret
                 THEN IF toggled.current_player = "blue"
                      THEN [ret |-> "True",
                            game |-> [toggled EXCEPT !.bd = mate.bd,
                                                     !.game_state = "RED_WON"]]
                      ELSE [ret |-> "True",
                            game |-> [toggled EXCEPT !.bd = mate.bd,
                                                     !.game_state = "BLUE_WON"]]
                 ELSE [ret |-> "True", game |-> [toggled EXCEPT !.bd = mate.bd]]
             \* after move_piece and toggle_players
             moved(toggled) ==
                 checked(toggled, is_in_checkmate(toggled.bd, toggled.current_player))
             \* after Board.is_legal, legal being what it gave
             decided(legal) ==
                 IF legal.ret
                 THEN moved(toggle_players(
                          [game EXCEPT !.bd = move_piece(legal.bd, source, destination)]))
                 ELSE [ret |-> "False", game |-> [game EXCEPT !.bd = legal.bd]]
         IN  decided(Board_is_legal(game.bd, source, destination))

\* make_move that names the checkmated colour as the winner.
make_move_loser_wins(game, source, destination) ==
    IF game.game_state # "UNFINISHED"
    THEN [ret |-> "False", game |-> game]
    ELSE IF source = destination
    THEN IF JanggiGame_is_in_check(game, game.current_player)
         THEN [ret |-> "False", game |-> game]
         ELSE [ret |-> "True", game |-> toggle_players(game)]
    ELSE IF get_occupant(game.bd, source) = None
    THEN [ret |-> "False", game |-> game]
    ELSE IF get_owner[get_occupant(game.bd, source)] # game.current_player
    THEN [ret |-> "False", game |-> game]
    ELSE LET \* after is_in_checkmate, toggled being the game value it was
             \* called in and mate what it gave
             checked(toggled, mate) ==
                 IF mate.ret
                 THEN IF toggled.current_player = "blue"
                      THEN [ret |-> "True",
                            game |-> [toggled EXCEPT !.bd = mate.bd,
                                                     !.game_state = "BLUE_WON"]]
                      ELSE [ret |-> "True",
                            game |-> [toggled EXCEPT !.bd = mate.bd,
                                                     !.game_state = "RED_WON"]]
                 ELSE [ret |-> "True", game |-> [toggled EXCEPT !.bd = mate.bd]]
             \* after move_piece and toggle_players
             moved(toggled) ==
                 checked(toggled, is_in_checkmate(toggled.bd, toggled.current_player))
             \* after Board.is_legal, legal being what it gave
             decided(legal) ==
                 IF legal.ret
                 THEN moved(toggle_players(
                          [game EXCEPT !.bd = move_piece(legal.bd, source, destination)]))
                 ELSE [ret |-> "False", game |-> [game EXCEPT !.bd = legal.bd]]
         IN  decided(Board_is_legal(game.bd, source, destination))

\* make_move that hands the turn over when Board.is_legal refuses the move.
make_move_refusal_passes(game, source, destination) ==
    IF game.game_state # "UNFINISHED"
    THEN [ret |-> "False", game |-> game]
    ELSE IF source = destination
    THEN IF JanggiGame_is_in_check(game, game.current_player)
         THEN [ret |-> "False", game |-> game]
         ELSE [ret |-> "True", game |-> toggle_players(game)]
    ELSE IF get_occupant(game.bd, source) = None
    THEN [ret |-> "False", game |-> game]
    ELSE IF get_owner[get_occupant(game.bd, source)] # game.current_player
    THEN [ret |-> "False", game |-> game]
    ELSE LET checked(toggled, mate) ==
                 IF mate.ret
                 THEN IF toggled.current_player = "blue"
                      THEN [ret |-> "True",
                            game |-> [toggled EXCEPT !.bd = mate.bd,
                                                     !.game_state = "RED_WON"]]
                      ELSE [ret |-> "True",
                            game |-> [toggled EXCEPT !.bd = mate.bd,
                                                     !.game_state = "BLUE_WON"]]
                 ELSE [ret |-> "True", game |-> [toggled EXCEPT !.bd = mate.bd]]
             moved(toggled) ==
                 checked(toggled, is_in_checkmate(toggled.bd, toggled.current_player))
             decided(legal) ==
                 IF legal.ret
                 THEN moved(toggle_players(
                          [game EXCEPT !.bd = move_piece(legal.bd, source, destination)]))
                 ELSE [ret |-> "False",
                       game |-> toggle_players([game EXCEPT !.bd = legal.bd])]
         IN  decided(Board_is_legal(game.bd, source, destination))

\* make_move whose pass has no return statement after toggle_players, so
\* that the call returns None.
make_move_pass_returns_none(game, source, destination) ==
    IF game.game_state # "UNFINISHED"
    THEN [ret |-> "False", game |-> game]
    ELSE IF source = destination
    THEN IF JanggiGame_is_in_check(game, game.current_player)
         THEN [ret |-> "False", game |-> game]
         ELSE [ret |-> "None", game |-> toggle_players(game)]
    ELSE IF get_occupant(game.bd, source) = None
    THEN [ret |-> "False", game |-> game]
    ELSE IF get_owner[get_occupant(game.bd, source)] # game.current_player
    THEN [ret |-> "False", game |-> game]
    ELSE LET checked(toggled, mate) ==
                 [ret |-> "True",
                  game |-> [toggled EXCEPT
                               !.bd = mate.bd,
                               !.game_state =
                                   IF ~mate.ret THEN @
                                   ELSE IF toggled.current_player = "blue"
                                   THEN "RED_WON" ELSE "BLUE_WON"]]
             moved(toggled) ==
                 checked(toggled, is_in_checkmate(toggled.bd, toggled.current_player))
             decided(legal) ==
                 IF legal.ret
                 THEN moved(toggle_players(
                          [game EXCEPT !.bd = move_piece(legal.bd, source, destination)]))
                 ELSE [ret |-> "False", game |-> [game EXCEPT !.bd = legal.bd]]
         IN  decided(Board_is_legal(game.bd, source, destination))

\* JanggiGame.make_move: the value returned (ret, "True" or "False") and the
\* game value left (game).
make_move(game, source, destination) ==
    IF game.game_state # "UNFINISHED"
    THEN [ret |-> "False", game |-> game]
    ELSE IF source = destination
    THEN IF JanggiGame_is_in_check(game, game.current_player)
         THEN [ret |-> "False", game |-> game]
         ELSE [ret |-> "True", game |-> toggle_players(game)]
    ELSE IF get_occupant(game.bd, source) = None
    THEN [ret |-> "False", game |-> game]
    ELSE IF get_owner[get_occupant(game.bd, source)] # game.current_player
    THEN [ret |-> "False", game |-> game]
    ELSE LET \* after is_in_checkmate, toggled being the game value it was
             \* called in and mate what it gave
             checked(toggled, mate) ==
                 IF mate.ret
                 THEN IF toggled.current_player = "blue"
                      THEN [ret |-> "True",
                            game |-> [toggled EXCEPT !.bd = mate.bd,
                                                     !.game_state = "RED_WON"]]
                      ELSE [ret |-> "True",
                            game |-> [toggled EXCEPT !.bd = mate.bd,
                                                     !.game_state = "BLUE_WON"]]
                 ELSE [ret |-> "True", game |-> [toggled EXCEPT !.bd = mate.bd]]
             \* after move_piece and toggle_players
             moved(toggled) ==
                 checked(toggled, is_in_checkmate(toggled.bd, toggled.current_player))
             \* after Board.is_legal, legal being what it gave
             decided(legal) ==
                 IF legal.ret
                 THEN moved(toggle_players(
                          [game EXCEPT !.bd = move_piece(legal.bd, source, destination)]))
                 ELSE [ret |-> "False", game |-> [game EXCEPT !.bd = legal.bd]]
         IN  decided(Board_is_legal(game.bd, source, destination))

\* initialize_board that sets up no Guards: 28 pieces.
initialize_board_without_guards ==
    LET set_up == {p \in PieceIds : get_name[p] # "GD"}
        grid == [row \in 0..9 |-> [column \in 0..8 |->
                    IF \E p \in set_up : InitialLayout[p] = encode_location(row, column)
                    THEN CHOOSE p \in set_up :
                           InitialLayout[p] = encode_location(row, column)
                    ELSE None]]
    IN  [board |-> grid,
         location |-> [p \in PieceIds |-> InitialLayout[p]],
         cart |-> [blue |-> SelectSeq([p \in PieceIds |-> p],
                       LAMBDA p : p \in set_up /\ get_owner[p] = "blue"),
                   red |-> SelectSeq([p \in PieceIds |-> p],
                       LAMBDA p : p \in set_up /\ get_owner[p] = "red")],
         temp |-> None, prepared |-> 0, tries |-> 0, nested |-> FALSE]

\* Board.initialize_board: the grid of the opening setup, and the carts filled
\* by scanning it row by row.
initialize_board ==
    LET grid == [row \in 0..9 |-> [column \in 0..8 |->
                    IF \E p \in PieceIds :
                           InitialLayout[p] = encode_location(row, column)
                    THEN CHOOSE p \in PieceIds :
                           InitialLayout[p] = encode_location(row, column)
                    ELSE None]]
    IN  [board |-> grid,
         location |-> [p \in PieceIds |-> InitialLayout[p]],
         cart |-> [blue |-> SelectSeq([p \in PieceIds |-> p],
                                      LAMBDA p : get_owner[p] = "blue"),
                   red |-> SelectSeq([p \in PieceIds |-> p],
                                     LAMBDA p : get_owner[p] = "red")],
         temp |-> None, prepared |-> 0, tries |-> 0, nested |-> FALSE]

\* JanggiGame.__init__ that gives red the first turn.
new_game_red_first ==
    [bd |-> initialize_board, game_state |-> "UNFINISHED", current_player |-> "red"]

\* JanggiGame.__init__
new_game ==
    [bd |-> initialize_board, game_state |-> "UNFINISHED", current_player |-> "blue"]

-----------------------------------------------------------------------------
(* The callers.                                                            *)

\* main() of JanggiGame.py: the two opening moves it requests.
main_script == << <<"e7", "e6">>, <<"e4", "e5">> >>

\* The "TEST CODE - Plays a game where blue wins" block of janggi_pygame.py:
\* the moves it requests, in order.
test_script == <<
    <<"a7", "b7">>, <<"i4", "h4">>, <<"h10", "g8">>, <<"c1", "d3">>,
    <<"h8", "e8">>, <<"i1", "i2">>, <<"e7", "f7">>, <<"b3", "e3">>,
    <<"g10", "e7">>, <<"e4", "d4">>, <<"c10", "d8">>, <<"g1", "e4">>,
    <<"f10", "f9">>, <<"h1", "g3">>, <<"a10", "a6">>, <<"d4", "d5">>,
    <<"e9", "f10">>, <<"h3", "f3">>, <<"e8", "h8">>, <<"i2", "h2">>,
    <<"h8", "f8">>, <<"f1", "f2">>, <<"b8", "e8">>, <<"f3", "f1">>,
    <<"i7", "h7">>, <<"f1", "c1">>, <<"d10", "e9">>, <<"a4", "b4">>,
    <<"a6", "a1">>, <<"c1", "a1">>, <<"f8", "d10">>, <<"d5", "c5">>,
    <<"i10", "i6">>, <<"b1", "d4">>, <<"c7", "c6">>, <<"c5", "b5">>,
    <<"b10", "d7">>, <<"d4", "f7">>, <<"g7", "f7">>, <<"a1", "f1">>,
    <<"g8", "f6">>, <<"f1", "f5">>, <<"f6", "d5">>, <<"e3", "e5">>,
    <<"f7", "f6">>, <<"f5", "f7">>, <<"f10", "e10">>, <<"e2", "f1">>,
    <<"i6", "i3">>, <<"h2", "g2">>, <<"i3", "i1">>, <<"f1", "e2">>,
    <<"f6", "f5">>, <<"c4", "d4">>, <<"f5", "e5">>, <<"f7", "d7">>,
    <<"e7", "g4">>, <<"d4", "d5">>, <<"e5", "e4">>, <<"d3", "e5">>,
    <<"e4", "e3">>, <<"e2", "d2">>, <<"e3", "e2">>, <<"d2", "d3">>,
    <<"e8", "e4">>, <<"f2", "e2">>, <<"i1", "d1">>, <<"e2", "d2">>,
    <<"d1", "f3">> >>

\* A game of 24 requests, all accepted, that make_move ends with RED_WON
\* although blue could still answer the check with f7-e7.
screen_script == <<
    <<"e9", "f8">>, <<"f1", "e1">>, <<"c7", "b7">>, <<"i1", "i3">>,
    <<"b7", "c7">>, <<"a1", "a3">>, <<"a10", "a8">>, <<"e2", "e3">>,
    <<"b10", "d7">>, <<"h1", "g3">>, <<"d7", "f4">>, <<"e4", "f4">>,
    <<"c10", "d8">>, <<"d1", "d2">>, <<"e7", "f7">>, <<"e3", "d3">>,
    <<"a8", "a9">>, <<"b3", "f3">>, <<"b8", "e8">>, <<"e1", "e2">>,
    <<"d10", "d9">>, <<"c4", "c5">>, <<"d9", "e9">>, <<"f3", "f5">> >>

\* A game of 29 requests, all accepted, after which red is in check from the
\* blue Elephant on f4 alone, which shields its own General on f9 from the
\* red Chariot on f2.
shield_script == <<
    <<"h10", "i8">>, <<"a1", "a3">>, <<"e9", "f9">>, <<"h1", "g3">>,
    <<"g7", "h7">>, <<"d1", "e1">>, <<"e7", "f7">>, <<"a3", "a1">>,
    <<"a10", "a9">>, <<"i1", "i2">>, <<"f7", "e7">>, <<"a4", "b4">>,
    <<"h8", "h5">>, <<"e2", "d2">>, <<"i10", "i9">>, <<"f1", "e2">>,
    <<"i9", "g9">>, <<"g4", "f4">>, <<"h5", "h8">>, <<"e4", "d4">>,
    <<"b10", "d7">>, <<"e2", "f1">>, <<"f10", "e9">>, <<"f4", "g4">>,
    <<"a9", "b9">>, <<"d2", "d1">>, <<"a7", "a6">>, <<"i2", "f2">>,
    <<"d7", "f4">> >>

Scripts == [main |-> main_script, test |-> test_script, screen |-> screen_script,
            shield |-> shield_script]

\* How many requests the interactive caller makes once it takes over.
MaxFree == 1

\* The game value the variables hold.
Game ==
    [bd |-> [board |-> board, location |-> location, cart |-> cart, temp |-> temp,
             prepared |-> 0, tries |-> 0, nested |-> FALSE],
     game_state |-> game_state, current_player |-> current_player]

\* Whether the interactive caller may make a request: before any script has
\* started, when the script has made its last request, whenever the player to
\* move is in check and, once it has taken over, for as long as its calls
\* return True.
FreePlay ==
    IF free > 0
    THEN result = "True"
    ELSE \/ driver = "none"
         \/ driver # "none" /\ pos = Len(Scripts[driver])
         \/ game_state = "UNFINISHED" /\ is_in_check(Game.bd, current_player)

\* What a caller can see of a square before its call: empty, a piece of the
\* player to move (mine) or a piece of the other player (theirs).
Side(square) ==
    LET piece == get_occupant(Game.bd, square)
    IN  IF piece = None THEN "empty"
        ELSE IF get_owner[piece] = current_player THEN "mine"
        ELSE "theirs"

\* The description of a call kept in the variable request: the method called,
\* whether the two squares are the same, what the squares hold, and whether
\* the piece on the source allows the move by its own rule (rule).
Request(call, source, destination) ==
    [call |-> call,
     pass |-> source = destination,
     source |-> Side(source),
     destination |-> Side(destination),
     rule |-> /\ Side(source) # "empty"
              /\ Piece_is_legal(Game.bd, get_occupant(Game.bd, source),
                                source, destination)]

\* The state of a game value, as the values of the variables.
SetGame(game) ==
    /\ board' = game.bd.board
    /\ location' = game.bd.location
    /\ cart' = game.bd.cart
    /\ temp' = game.bd.temp
    /\ game_state' = game.game_state
    /\ current_player' = game.current_player

Init ==
    /\ board = new_game.bd.board
    /\ location = new_game.bd.location
    /\ cart = new_game.bd.cart
    /\ temp = new_game.bd.temp
    /\ game_state = new_game.game_state
    /\ current_player = new_game.current_player
    /\ result = "none"
    /\ request = [call |-> "none", pass |-> FALSE, source |-> "empty",
                  destination |-> "empty", rule |-> FALSE]
    /\ driver = "none"
    /\ pos = 0
    /\ free = 0

\* The variables after the call make_move(source, destination).
Call(source, destination) ==
    LET returned(made) ==
            /\ SetGame(made.game)
            /\ result' = made.ret
            /\ request' = Request("make_move", source, destination)
    IN  returned(make_move(Game, source, destination))

\* A script requests its next move.
Replay(name) ==
    /\ driver \in {"none", name}
    /\ free = 0
    /\ pos < Len(Scripts[name])
    /\ Call(Scripts[name][pos + 1][1], Scripts[name][pos + 1][2])
    /\ driver' = name
    /\ pos' = pos + 1
    /\ free' = free

\* The interactive caller requests make_move for any two squares.
MakeMove ==
    /\ free < MaxFree
    /\ FreePlay
    /\ \E source \in Squares, destination \in Squares : Call(source, destination)
    /\ free' = free + 1
    /\ UNCHANGED <<driver, pos>>

\* The interactive caller asks the board whether a move is legal, for any
\* occupied source and any destination: get_board().is_legal(source,
\* destination).
IsLegal ==
    /\ free < MaxFree
    /\ FreePlay
    /\ \E source \in Squares, destination \in Squares :
           /\ get_occupant(Game.bd, source) # None
           /\ LET returned(legal) ==
                      /\ SetGame([Game EXCEPT !.bd = legal.bd])
                      /\ result' = IF legal.ret THEN "True" ELSE "False"
                      /\ request' = Request("is_legal", source, destination)
              IN  returned(Board_is_legal(Game.bd, source, destination))
    /\ free' = free + 1
    /\ UNCHANGED <<driver, pos>>

Next ==
    \/ \E name \in DOMAIN Scripts : Replay(name)
    \/ MakeMove
    \/ IsLegal

Spec == Init /\ [][Next]_vars

-----------------------------------------------------------------------------
(* Calls with arbitrary strings.  A Python call that raises an exception   *)
(* (an index past the end of a string, a key missing from a dictionary, an *)
(* attribute of None) assigns nothing before it does; its outcome is the   *)
(* result "raised" and the state as it was.                                *)

\* Whether decode_location returns for the string loc: loc[0] exists and is
\* a key of column_key, and the row text it reads (loc[1:] for a string of
\* three characters, loc[1] otherwise) exists and is a key of row_key.
decodes(loc) ==
    /\ Len(loc) >= 1
    /\ Head(loc) \in DOMAIN column_key
    /\ IF Len(loc) = 3
       THEN SubSeq(loc, 2, Len(loc)) \in DOMAIN row_key
       ELSE Len(loc) >= 2 /\ SubSeq(loc, 2, 2) \in DOMAIN row_key

\* Whether make_move(source, destination) raises: in get_occupant(source),
\* or, for a piece of the player to move, in the piece's is_legal, which
\* starts by decoding both strings.
make_move_raises(game, source, destination) ==
    /\ game.game_state = "UNFINISHED"
    /\ source # destination
    /\ \/ ~decodes(source)
       \/ /\ get_occupant(game.bd, source) # None
          /\ get_owner[get_occupant(game.bd, source)] = game.current_player
          /\ ~decodes(destination)

\* Whether Board.is_legal(source, destination) raises: in its decode_location
\* of the source, in source_piece.get_owner() for an empty source, or in the
\* piece's is_legal.
Board_is_legal_raises(bd, source, destination) ==
    \/ ~decodes(source)
    \/ get_occupant(bd, source) = None
    \/ ~decodes(destination)

\* The strings passed: squares of the board, what get_algebraic_from_mouse
\* gives for a click off the board ("", a letter alone, a number alone), and
\* other strings that are not coordinates.
Texts == {"a7", "a6", "e7", "e6", "a1", "e5", "i10",
          "", "a", "7",
          "z9", "a0", "a11", "a100", "a6xy", "e6x"}

\* How many calls with arbitrary strings are made.
MaxTexts == 1

\* make_move(source, destination) for any two strings.
MakeMoveText ==
    /\ free < MaxTexts
    /\ \E source \in Texts, destination \in Texts :
           /\ request' = [call |-> "make_move", source |-> source,
                          destination |-> destination]
           /\ IF make_move_raises(Game, source, destination)
              THEN /\ result' = "raised"
                   /\ UNCHANGED <<board, location, cart, temp, game_state,
                                  current_player>>
              ELSE LET returned(made) ==
                           /\ SetGame(made.game)
                           /\ result' = made.ret
                   IN  returned(make_move(Game, source, destination))
    /\ free' = free + 1
    /\ UNCHANGED <<driver, pos>>

\* get_board().is_legal(source, destination) for any two strings.
IsLegalText ==
    /\ free < MaxTexts
    /\ \E source \in Texts, destination \in Texts :
           /\ request' = [call |-> "is_legal", source |-> source,
                          destination |-> destination]
           /\ IF Board_is_legal_raises(Game.bd, source, destination)
              THEN /\ result' = "raised"
                   /\ UNCHANGED <<board, location, cart, temp, game_state,
                                  current_player>>
              ELSE LET returned(legal) ==
                           /\ SetGame([Game EXCEPT !.bd = legal.bd])
                           /\ result' = IF legal.ret THEN "True" ELSE "False"
                   IN  returned(Board_is_legal(Game.bd, source, destination))
    /\ free' = free + 1
    /\ UNCHANGED <<driver, pos>>

TextNext ==
    \/ MakeMoveText
    \/ IsLegalText

TextSpec == Init /\ [][TextNext]_vars

-----------------------------------------------------------------------------
(* The location codec on its own: decode_location of a string and          *)
(* encode_location of a row and a column, called in any order.  The        *)
(* variable request holds the call and result what it gave.                *)

\* The strings decoded: nothing or one character, then nothing, a number or
\* other characters.
CodecTexts ==
    {letter \o number :
        letter \in {"", "a", "b", "c", "d", "e", "f", "g", "h", "i", "j", "z", "A"},
        number \in {"", "0", "1", "2", "3", "4", "5", "6", "7", "8", "9", "10",
                    "11", "100", "1x", "1xy", "x1"}}

Decode ==
    /\ \E text \in CodecTexts :
           /\ request' = [call |-> "decode_location", text |-> text]
           /\ result' = IF decodes(text)
                        THEN [raised |-> FALSE, value |-> decode_location(text)]
                        ELSE [raised |-> TRUE, value |-> <<>>]
    /\ UNCHANGED <<board, location, cart, temp, game_state, current_player,
                   driver, pos, free>>

Encode ==
    /\ \E row \in 0..9, column \in 0..8 :
           /\ request' = [call |-> "encode_location", row |-> row, column |-> column]
           /\ result' = [raised |-> FALSE, value |-> encode_location(row, column)]
    /\ UNCHANGED <<board, location, cart, temp, game_state, current_player,
                   driver, pos, free>>

CodecNext ==
    \/ Decode
    \/ Encode

CodecSpec == Init /\ [][CodecNext]_vars

-----------------------------------------------------------------------------
(* The movement rules on their own: is_legal of one piece, called on boards *)
(* that hold the two Generals, the piece asked and at most MaxOthers other  *)
(* pieces standing where the rule looks: on the squares the piece passes    *)
(* and on its destination.                                                 *)

\* How many pieces stand on the board besides the Generals and the piece
\* whose rule is asked.
MaxOthers == 2

\* How far from a Chariot or a Cannon, along one line, the other pieces stand.
MaxReach == 3

Sign(n) == IF n > 0 THEN 1 ELSE IF n < 0 THEN -1 ELSE 0

\* The displacements (rows, columns) a Horse and an Elephant may make.
Shapes(name) ==
    {o \in ((0 - 3)..3) \X ((0 - 3)..3) :
        {Abs(o[1]), Abs(o[2])} = IF name = "HO" THEN {1, 2} ELSE {2, 3}}

\* The displacements of the squares passed on the way by the displacement o:
\* one step along the longer axis and, for an Elephant, one diagonal step more
\* towards the destination.
Passed(o) ==
    LET first == IF Abs(o[1]) > Abs(o[2]) THEN <<Sign(o[1]), 0>> ELSE <<0, Sign(o[2])>>
    IN  IF Abs(o[1]) + Abs(o[2]) = 3
        THEN {first}
        ELSE {first, <<first[1] + Sign(o[1]), first[2] + Sign(o[2])>>}

\* The eight directions.
Directions == {o \in ((0 - 1)..1) \X ((0 - 1)..1) : o # <<0, 0>>}

\* The squares, among the displacements given from the cell at, that are on
\* the board.
SquaresAt(at, displacements) ==
    {encode_location(at[1] + o[1], at[2] + o[2]) :
        o \in {o \in displacements : at[1] + o[1] \in 0..9 /\ at[2] + o[2] \in 0..8}}

\* Where the other pieces stand for a piece of the given name on the source:
\* all of them in one of these sets of squares.  For a Horse or an Elephant,
\* the squares passed and the destination of one of its moves; for a Chariot
\* or a Cannon, one line from the source (a diagonal one from a palace square
\* only); for a Soldier, one neighbouring square.
RuleGroups(name, source) ==
    LET at == decode_location(source)
    IN  CASE name \in {"HO", "EL"} ->
                 {SquaresAt(at, {o} \cup Passed(o)) : o \in Shapes(name)}
          [] name \in {"CH", "CA"} ->
                 {SquaresAt(at, {<<k * dir[1], k * dir[2]>> : k \in 1..MaxReach}) :
                     dir \in {dir \in Directions :
                                 dir[1] = 0 \/ dir[2] = 0 \/ source \in palace}}
          [] OTHER ->
                 {SquaresAt(at, {dir}) : dir \in Directions}

RECURSIVE Arrangements(_, _, _)
\* The ways to put at most k of the pieces on the squares: sets of pairs of a
\* piece and a square.
Arrangements(k, pieces, squares) ==
    IF k = 0
    THEN {{}}
    ELSE LET fewer == Arrangements(k - 1, pieces, squares)
         IN  fewer \cup {a \cup {<<piece, square>>} :
                            a \in fewer, piece \in pieces, square \in squares}

\* No piece twice and no square twice.
Distinct(a) ==
    \A x \in a, y \in a : x # y => x[1] # y[1] /\ x[2] # y[2]

\* The board value with exactly the placed pieces, each a pair of a piece and
\* its square: the grid, the stored locations and the carts as the Board and
\* Player methods keep them.
RuleBoard(placed) ==
    [board |-> [row \in 0..9 |-> [column \in 0..8 |->
                   IF \E pl \in placed : pl[2] = encode_location(row, column)
                   THEN (CHOOSE pl \in placed : pl[2] = encode_location(row, column))[1]
                   ELSE None]],
     location |-> [p \in PieceIds |->
                      IF \E pl \in placed : pl[1] = p
                      THEN (CHOOSE pl \in placed : pl[1] = p)[2]
                      ELSE InitialLayout[p]],
     cart |-> [blue |-> SelectSeq([p \in PieceIds |-> p],
                   LAMBDA p : get_owner[p] = "blue" /\ \E pl \in placed : pl[1] = p),
               red |-> SelectSeq([p \in PieceIds |-> p],
                   LAMBDA p : get_owner[p] = "red" /\ \E pl \in placed : pl[1] = p)],
     temp |-> None, prepared |-> 0, tries |-> 0, nested |-> FALSE]

\* The two Generals, each on the back rank of its palace.
RuleGenerals == {<<9, "e1">>, <<24, "e10">>}

\* The squares a Chariot or a Cannon is asked on: the palaces and squares of
\* the edges and of the middle of the board.
LineSources ==
    palace \cup {"a1", "i1", "a10", "i10", "a5", "i6", "e5", "e6", "c4", "g7", "b8", "h3"}

\* The squares a piece is asked on.  A Soldier never stands behind the row it
\* starts on: is_legal lets it move sideways and towards the other side only.
RuleSources(piece) ==
    {source \in Squares :
        /\ source \notin {"e1", "e10"}
        /\ get_name[piece] \in {"CH", "CA"} => source \in LineSources
        /\ get_name[piece] = "SD" =>
               IF get_owner[piece] = "blue"
               THEN decode_location(source)[1] <= 6
               ELSE decode_location(source)[1] >= 3}

\* The other pieces: a Chariot of each colour and, around a Cannon, a Cannon
\* of each colour as well.
RuleOthers(piece) ==
    IF get_name[piece] = "CA" THEN {1, 32, 10, 23} ELSE {1, 32}

\* The boards a piece is asked on.
RuleBoards(piece) ==
    UNION {UNION {{RuleBoard({<<piece, source>>} \cup a \cup RuleGenerals) :
                      a \in {a \in Arrangements(MaxOthers, RuleOthers(piece),
                                                group \ {"e1", "e10"}) : Distinct(a)}} :
                     group \in RuleGroups(get_name[piece], source)} :
              source \in RuleSources(piece)}

\* A game on one of the boards of one of the pieces, before any call.
RuleInit(pieces) ==
    /\ \E piece \in pieces : \E bd \in RuleBoards(piece) :
           /\ board = bd.board
           /\ location = bd.location
           /\ cart = bd.cart
           /\ temp = bd.temp
    /\ game_state = "UNFINISHED"
    /\ current_player = "blue"
    /\ result = "none"
    /\ request = [call |-> "none", source |-> "none"]
    /\ driver = "none"
    /\ pos = 0
    /\ free = 0

\* piece.is_legal(source, destination) asked of one piece of the given name,
\* on its own square, for every destination in turn; the calls read the board
\* and assign nothing.  The variable result holds the destinations for which
\* the call returned True.
RuleCall(name) ==
    /\ free = 0
    /\ \E source \in Squares :
           /\ get_occupant(Game.bd, source) # None
           /\ get_name[get_occupant(Game.bd, source)] = name
           /\ request' = [call |-> "Piece.is_legal", source |-> source]
           /\ result' = {destination \in Squares :
                            Piece_is_legal(Game.bd, get_occupant(Game.bd, source),
                                           source, destination)}
    /\ free' = 1
    /\ UNCHANGED <<board, location, cart, temp, game_state, current_player,
                   driver, pos>>

HorseInit == RuleInit({27})

HorseCall == RuleCall("HO")

HorseSpec == HorseInit /\ [][HorseCall]_vars

ElephantInit == RuleInit({26})

ElephantCall == RuleCall("EL")

ElephantSpec == ElephantInit /\ [][ElephantCall]_vars

ChariotInit == RuleInit({25})

ChariotCall == RuleCall("CH")

ChariotSpec == ChariotInit /\ [][ChariotCall]_vars

CannonInit == RuleInit({22})

CannonCall == RuleCall("CA")

CannonSpec == CannonInit /\ [][CannonCall]_vars

SoldierInit == RuleInit({12, 17})

SoldierCall == RuleCall("SD")

SoldierSpec == SoldierInit /\ [][SoldierCall]_vars

-----------------------------------------------------------------------------
(* What the properties below speak of, read off the grid and the carts     *)
(* without the methods whose effect they state.                            *)

Cells == (0..9) \X (0..8)

\* The coordinate texts: one letter from a to i, then the digits of a number
\* from 1 to 10.
ValidTexts ==
    {letter \o ToString(number) :
        letter \in {"a", "b", "c", "d", "e", "f", "g", "h", "i"}, number \in 1..10}

\* The pieces standing on the grid.
OnGrid == {board[c[1]][c[2]] : c \in Cells} \ {None}

\* Each player's pieces, as a set.
CartSet == [c \in Colors |-> {cart[c][k] : k \in 1..Len(cart[c])}]

\* Whether some piece of the other colour standing on the grid may, by its
\* own rule, move to the square of a General of the given colour.
Attacked(color) ==
    LET generals == {g \in Cells : /\ board[g[1]][g[2]] # None
                                   /\ get_name[board[g[1]][g[2]]] = "GN"
                                   /\ get_owner[board[g[1]][g[2]]] = color}
        others == {a \in Cells : /\ board[a[1]][a[2]] # None
                                 /\ get_owner[board[a[1]][a[2]]] # color}
    IN  \E g \in generals, a \in others :
            Piece_is_legal(Game.bd, board[a[1]][a[2]],
                           encode_location(a[1], a[2]),
                           encode_location(g[1], g[2]))

\* The latest call was a make_move that relocated a piece.
Relocated ==
    request.call = "make_move" /\ ~request.pass /\ result = "True"

\* The colour named as winner by a game state.
Won(color) == IF color = "blue" THEN "BLUE_WON" ELSE "RED_WON"

\* A step that leaves the grid, the stored locations, each player's set of
\* pieces, the turn and the game state as they were, and the buffer empty.
NothingChanged ==
    /\ board' = board
    /\ location' = location
    /\ CartSet' = CartSet
    /\ current_player' = current_player
    /\ game_state' = game_state
    /\ temp' = None

\* The cell of the grid a square names: its row (0 for row 1) and its column
\* (0 for column a).
CellOf ==
    [square \in Squares |->
        CHOOSE c \in Cells : encode_location(c[1], c[2]) = square]

\* The piece standing on a square, None on an empty one.
PieceAt(square) == board[CellOf[square][1]][CellOf[square][2]]

\* How many rows and how many columns lie from one square to another.
Rows(source, destination) == CellOf[destination][1] - CellOf[source][1]

Columns(source, destination) == CellOf[destination][2] - CellOf[source][2]

\* Two different squares of one rank or of one file.
OnOneLine(source, destination) ==
    /\ source # destination
    /\ Rows(source, destination) = 0 \/ Columns(source, destination) = 0

\* Two different squares of one diagonal.
OnOneDiagonal(source, destination) ==
    /\ source # destination
    /\ Abs(Rows(source, destination)) = Abs(Columns(source, destination))

\* The squares strictly between two squares of one rank, file or diagonal.
Between(source, destination) ==
    IF OnOneLine(source, destination) \/ OnOneDiagonal(source, destination)
    THEN LET far == IF Abs(Rows(source, destination)) > Abs(Columns(source, destination))
                    THEN Abs(Rows(source, destination))
                    ELSE Abs(Columns(source, destination))
         IN  {encode_location(
                  CellOf[source][1] + k * Sign(Rows(source, destination)),
                  CellOf[source][2] + k * Sign(Columns(source, destination))) :
                  k \in 1..(far - 1)}
    ELSE {}

\* The palace of a colour: columns d to f of rows 1 to 3 for red and of rows
\* 8 to 10 for blue; its four corners and its centre.
PalaceOf(color) ==
    {square \in Squares :
        /\ CellOf[square][2] \in 3..5
        /\ CellOf[square][1] \in IF color = "red" THEN 0..2 ELSE 7..9}

PalaceCentre(color) == IF color = "red" THEN "e2" ELSE "e9"

PalaceCornersOf(color) ==
    {square \in PalaceOf(color) :
        /\ Abs(Rows(PalaceCentre(color), square)) = 1
        /\ Abs(Columns(PalaceCentre(color), square)) = 1}

\* Whether the destination holds a piece of the colour of the piece on the
\* source.
Friendly(source, destination) ==
    /\ PieceAt(destination) # None
    /\ get_owner[PieceAt(destination)] = get_owner[PieceAt(source)]

-----------------------------------------------------------------------------
(* The properties.                                                         *)

\* C1: blue moves first; a make_move call that returns True hands the turn to
\* the other colour, and one that returns False leaves the turn where it was.
TurnAlternation ==
    /\ current_player = "blue"
    /\ [][request'.call = "make_move" =>
            /\ result' = "True" => current_player' = other_player(current_player)
            /\ result' = "False" => current_player' = current_player]_vars

\* Red has made an accepted request and the turn is back with blue.
TurnAlternationWitness ==
    /\ request.call = "make_move"
    /\ result = "True"
    /\ driver = "main" /\ pos = 2
    /\ current_player = "blue"

\* C2: after an accepted make_move with different squares, no piece of the
\* other colour may by its own rule move to the mover's General.
NoSelfCheck ==
    Relocated => ~Attacked(other_player(current_player))

\* A request refused only for exposing the mover's General: the piece is the
\* mover's and its own rule allows the move.
NoSelfCheckWitness ==
    /\ request.call = "make_move"
    /\ ~request.pass
    /\ request.source = "mine"
    /\ request.rule
    /\ result = "False"
    /\ game_state = "UNFINISHED"

\* C3: once the game state is BLUE_WON or RED_WON every make_move call returns
\* False and leaves the game state, the turn, the grid and the piece sets.
GameOverIsFinal ==
    [][game_state # "UNFINISHED" /\ request'.call = "make_move" =>
         /\ result' = "False"
         /\ game_state' = game_state
         /\ current_player' = current_player
         /\ board' = board
         /\ CartSet' = CartSet]_vars

\* A move of the loser's own piece, allowed by the piece's rule, refused after
\* the game was won.
GameOverIsFinalWitness ==
    /\ game_state # "UNFINISHED"
    /\ request.call = "make_move"
    /\ ~request.pass
    /\ request.source = "mine"
    /\ request.rule
    /\ result = "False"

\* C4: the game state changes only from UNFINISHED, only in a make_move call
\* that relocates a piece and returns True, only when is_in_checkmate holds of
\* the colour then to move, and the new state names the mover as the winner.
StateChangesOnlyByMate ==
    [][game_state' # game_state =>
         /\ game_state = "UNFINISHED"
         /\ request'.call = "make_move"
         /\ ~request'.pass
         /\ result' = "True"
         /\ board' # board
         /\ current_player' = other_player(current_player)
         /\ is_in_checkmate([board |-> board', location |-> location',
                             cart |-> cart', temp |-> temp',
                             prepared |-> 0, tries |-> 0, nested |-> FALSE],
                            current_player').ret
         /\ game_state' = Won(current_player)]_vars

\* Blue's relocation has just ended the game in blue's favour.
StateChangesOnlyByMateWitness ==
    /\ Relocated
    /\ game_state = "BLUE_WON"
    /\ current_player = "red"

\* C5: a make_move call that returns False leaves the grid, every stored
\* location, each player's set of pieces, the turn and the game state as they
\* were, and the buffer empty.
RejectionChangesNothing ==
    [][request'.call = "make_move" /\ result' = "False" => NothingChanged]_vars

\* A refused capture that was tried on the board and undone: the mover's
\* piece may by its rule take the piece on the destination.
RejectionChangesNothingWitness ==
    /\ request.call = "make_move"
    /\ request.source = "mine"
    /\ request.destination = "theirs"
    /\ request.rule
    /\ result = "False"
    /\ game_state = "UNFINISHED"

\* C6: an accepted make_move with different squares takes exactly one piece
\* off the grid if the destination held a piece of the other colour and none
\* otherwise; the piece taken leaves its owner's set; the mover loses nothing.
CaptureBookkeeping ==
    [][request'.call = "make_move" /\ ~request'.pass /\ result' = "True" =>
         /\ request'.destination # "mine"
         /\ (Cardinality(OnGrid') = Cardinality(OnGrid) - 1)
                <=> (request'.destination = "theirs")
         /\ request'.destination # "theirs" => OnGrid' = OnGrid
         /\ \A p \in OnGrid \ OnGrid' :
                /\ get_owner[p] # current_player
                /\ p \notin CartSet'[get_owner[p]]
         /\ CartSet'[current_player] = CartSet[current_player]
         /\ \A p \in OnGrid : get_owner[p] = current_player => p \in OnGrid']_vars

\* An accepted capture.
CaptureBookkeepingWitness ==
    /\ Relocated
    /\ request.destination = "theirs"
    /\ Cardinality(OnGrid) < 32

\* C7: Board.is_legal, for an occupied source and any destination, leaves the
\* grid, the stored locations and each player's set of pieces (held once
\* each) as they were, and the buffer empty.
IsLegalChangesNothing ==
    [][request'.call = "is_legal" =>
         /\ board' = board
         /\ location' = location
         /\ CartSet' = CartSet
         /\ \A c \in Colors : Len(cart'[c]) = Cardinality(CartSet'[c])
         /\ temp' = None]_vars

\* is_legal has tried a capture of the opening position and undone it: all
\* pieces are there, and a cart is no longer in its opening order.
IsLegalChangesNothingWitness ==
    /\ request.call = "is_legal"
    /\ request.rule
    /\ request.destination # "empty"
    /\ Cardinality(OnGrid) = 32
    /\ cart # new_game.bd.cart

\* C8: in an unfinished game make_move(x, x) is refused, changing nothing, if
\* the General of the colour to move is attacked; otherwise it returns True,
\* hands over the turn and leaves the board, whatever stands on x.
PassRule ==
    [][game_state = "UNFINISHED" /\ request'.call = "make_move" /\ request'.pass =>
         IF Attacked(current_player)
         THEN result' = "False" /\ NothingChanged
         ELSE /\ result' = "True"
              /\ current_player' = other_player(current_player)
              /\ game_state' = game_state
              /\ board' = board
              /\ location' = location
              /\ CartSet' = CartSet
              /\ temp' = None]_vars

\* An accepted pass that named a square holding the other colour's piece.
PassRuleWitness ==
    /\ request.call = "make_move"
    /\ request.pass
    /\ request.source = "theirs"
    /\ result = "True"

\* C9: a make_move call with different squares whose source is empty or holds
\* a piece of the colour not to move returns False and changes nothing.
WrongSourceRefused ==
    [][/\ request'.call = "make_move"
       /\ ~request'.pass
       /\ request'.source \in {"empty", "theirs"}
       => result' = "False" /\ NothingChanged]_vars

\* A refused move of the other colour's piece that the piece's rule allows.
WrongSourceRefusedWitness ==
    /\ request.call = "make_move"
    /\ ~request.pass
    /\ request.source = "theirs"
    /\ request.rule
    /\ result = "False"
    /\ game_state = "UNFINISHED"
    /\ driver = "none"

\* C10: from the opening position e7-e6 returns True and then e4-e5 returns
\* True; after both the game is unfinished, blue is to move, e6 holds a blue
\* Soldier, e5 a red Soldier, and e7 and e4 are empty.
OpeningScenario ==
    driver = "main" /\ free = 0 =>
        /\ result = "True"
        /\ pos = 2 =>
              /\ game_state = "UNFINISHED"
              /\ current_player = "blue"
              /\ board[5][4] # None
              /\ get_name[board[5][4]] = "SD" /\ get_owner[board[5][4]] = "blue"
              /\ board[4][4] # None
              /\ get_name[board[4][4]] = "SD" /\ get_owner[board[4][4]] = "red"
              /\ board[6][4] = None
              /\ board[3][4] = None

\* main() has made both of its requests.
OpeningScenarioWitness ==
    driver = "main" /\ pos = 2 /\ free = 0

\* C11: replaying the authors' scripted game from the opening position, the
\* game is UNFINISHED after every request before the last one, d1-f3, and
\* BLUE_WON after that one: the terminal value is set by the move that
\* completes the mate, not earlier.
ScriptedMate ==
    /\ test_script[Len(test_script)] = <<"d1", "f3">>
    /\ driver = "test" /\ free = 0 =>
           /\ pos < Len(test_script) => game_state = "UNFINISHED"
           /\ pos = Len(test_script) => game_state = "BLUE_WON"

\* The scripted game has made its last request, which was accepted.
ScriptedMateWitness ==
    /\ driver = "test" /\ free = 0
    /\ pos = Len(test_script)
    /\ request.call = "make_move" /\ result = "True"
    /\ game_state = "BLUE_WON"

\* C12: in every state reached by make_move calls from the opening position
\* each colour has exactly one General on the grid and exactly one in its
\* piece set, and Player.get_general finds it.
OneGeneral ==
    \A color \in Colors :
        /\ Cardinality({p \in OnGrid : get_name[p] = "GN" /\ get_owner[p] = color}) = 1
        /\ Cardinality({k \in 1..Len(cart[color]) :
                           get_name[cart[color][k]] = "GN"}) = 1
        /\ get_general(Game.bd, color) # None
        /\ get_general(Game.bd, color) \in OnGrid

\* An accepted move has left the General of the player to move under attack,
\* in a game that goes on.
OneGeneralWitness ==
    /\ request.call = "make_move" /\ result = "True"
    /\ game_state = "UNFINISHED"
    /\ Attacked(current_player)

\* C13: in every state between make_move calls no piece stands on two cells
\* of the grid (a cell holds one piece or None), the stored location of each
\* piece on the grid names the cell that holds it, and each player's piece
\* set holds, once each, exactly the pieces of that colour on the grid; so a
\* captured piece is neither on the grid nor in a piece set.
BoardConsistent ==
    /\ \A p \in PieceIds : Cardinality({c \in Cells : board[c[1]][c[2]] = p}) <= 1
    /\ \A c \in Cells :
           board[c[1]][c[2]] # None =>
               location[board[c[1]][c[2]]] = encode_location(c[1], c[2])
    /\ \A color \in Colors :
           /\ CartSet[color] = {p \in OnGrid : get_owner[p] = color}
           /\ Len(cart[color]) = Cardinality(CartSet[color])
    /\ \A p \in PieceIds \ OnGrid : \A color \in Colors : p \notin CartSet[color]

\* An accepted move has just captured a piece, and it was not the first
\* capture of the game.
BoardConsistentWitness ==
    /\ request.call = "make_move" /\ result = "True"
    /\ request.destination = "theirs"
    /\ Cardinality(OnGrid) < Cardinality(PieceIds) - 1

\* C14: is_in_check(colour) is true exactly when some piece of the other
\* colour standing on the grid may, by its own rule alone, move from its
\* square to the square of colour's General.  (The operators is_in_check and
\* JanggiGame_is_in_check yield a truth value and no board value: the methods
\* assign nothing.)
CheckIsAttack ==
    \A color \in Colors :
        /\ JanggiGame_is_in_check(Game, color) <=> Attacked(color)
        /\ is_in_check(Game.bd, color) <=> Attacked(color)

\* A position of a game that goes on in which the player to move is in check
\* and the other player is not.
CheckIsAttackWitness ==
    /\ game_state = "UNFINISHED"
    /\ JanggiGame_is_in_check(Game, current_player)
    /\ ~JanggiGame_is_in_check(Game, other_player(current_player))

\* The pieces of the other colour that may, by their own rule alone, move from
\* their square to the square of the General of the given colour.
PureAttackers(color) ==
    {p \in CartSet[other_player(color)] :
        Piece_is_legal(Game.bd, p, location[p],
                       location[get_general(Game.bd, color)])}

\* The attacker list that is_in_checkmate builds for the given colour, as a set.
ListedAttackers(color) ==
    LET attackers == populate_attackers(Game.bd, other_player(color),
                         location[get_general(Game.bd, color)], 1, <<>>).list
    IN  {attackers[k] : k \in 1..Len(attackers)}

\* C15: in the checkmate search the attackers are exactly the opposing pieces
\* whose own rule reaches the defending General's square, those whose move
\* there would expose their own General included.
AttackersArePure ==
    \A color \in Colors : ListedAttackers(color) = PureAttackers(color)

\* C20, as stated: the opening position holds exactly 28 pieces, and no
\* reachable state has more than 32 pieces on the grid.
OpeningHas28Pieces ==
    /\ request.call = "none" => Cardinality(OnGrid) = 28
    /\ Cardinality(OnGrid) <= 32

\* C20, amended: the opening position holds exactly 32 pieces, 16 of each
\* colour (a General, two Guards, two Elephants, two Horses, two Chariots,
\* two Cannons and five Soldiers), and no reachable state has more than 32
\* pieces on the grid.
OpeningHas32Pieces ==
    /\ request.call = "none" =>
           /\ Cardinality(OnGrid) = 32
           /\ \A color \in Colors :
                  /\ Cardinality({p \in OnGrid : get_owner[p] = color}) = 16
                  /\ Cardinality({p \in OnGrid : get_owner[p] = color
                                                 /\ get_name[p] = "GN"}) = 1
                  /\ \A name \in {"GD", "EL", "HO", "CH", "CA"} :
                         Cardinality({p \in OnGrid : get_owner[p] = color
                                                        /\ get_name[p] = name}) = 2
                  /\ Cardinality({p \in OnGrid : get_owner[p] = color
                                                 /\ get_name[p] = "SD"}) = 5
    /\ Cardinality(OnGrid) <= 32

\* The opening position, before any call, with a piece on each of the four
\* Guard squares.
OpeningHas32PiecesWitness ==
    /\ request.call = "none"
    /\ \A square \in {"d1", "f1", "d10", "f10"} :
           get_occupant(Game.bd, square) # None
           /\ get_name[get_occupant(Game.bd, square)] = "GD"

\* C16: decode_location fails for every string that is not a coordinate text
\* (strings of four or more characters, a bad letter, a row such as 0 or 11).
DecodeRejectsMalformed ==
    request.call = "decode_location" /\ request.text \notin ValidTexts
        => result.raised

\* C17: a make_move call in which the source or the destination is not a
\* coordinate text leaves the colour to move, the game state and the board as
\* they were, also when the two strings are equal.
MalformedCallChangesNothing ==
    [][request'.call = "make_move"
       /\ (request'.source \notin ValidTexts \/ request'.destination \notin ValidTexts)
           => NothingChanged]_vars

EmptySourceIsRefused ==
    request.call = "is_legal"
    /\ request.source \in ValidTexts /\ request.destination \in ValidTexts
    /\ get_occupant(Game.bd, request.source) = None
        => result = "False"


\* What C21 says of a Cannon on the source and a destination.
CannonRule(source, destination) ==
    /\ ~Friendly(source, destination)
    /\ PieceAt(destination) # None => get_name[PieceAt(destination)] # "CA"
    /\ \/ OnOneLine(source, destination)
       \/ /\ OnOneDiagonal(source, destination)
          /\ \E color \in Colors :
                 {source, destination} \subseteq PalaceCornersOf(color)
    /\ Cardinality({q \in Between(source, destination) : PieceAt(q) # None}) = 1
    /\ \A q \in Between(source, destination) :
           PieceAt(q) # None => get_name[PieceAt(q)] # "CA"

\* C21: Cannon.is_legal accepts a destination exactly when it holds neither a
\* friendly piece nor a Cannon, the move runs along a rank or a file or from
\* a corner of a palace to the opposite corner, and exactly one piece, not a
\* Cannon, stands strictly between.
CannonMoves ==
    request.call = "Piece.is_legal" /\ get_name[PieceAt(request.source)] = "CA" =>
        \A destination \in Squares :
            destination \in result <=> CannonRule(request.source, destination)

\* A Cannon on a corner of a palace was asked and may jump over the piece on
\* the centre to the opposite corner; it may not jump along some line on which
\* a Cannon is the one piece between.
CannonMovesWitness ==
    /\ request.call = "Piece.is_legal"
    /\ get_name[PieceAt(request.source)] = "CA"
    /\ \E destination \in result : OnOneDiagonal(request.source, destination)
    /\ \E destination \in Squares \ result :
           /\ PieceAt(destination) = None
           /\ \E q \in Between(request.source, destination) :
                  PieceAt(q) # None /\ get_name[PieceAt(q)] = "CA"


\* What C22 says of a Chariot on the source and a destination.
ChariotRule(source, destination) ==
    /\ ~Friendly(source, destination)
    /\ \/ OnOneLine(source, destination)
       \/ /\ OnOneDiagonal(source, destination)
          /\ \E color \in Colors :
                 {source, destination} \subseteq
                     PalaceCornersOf(color) \cup {PalaceCentre(color)}
    /\ \A q \in Between(source, destination) : PieceAt(q) = None

\* C22: Chariot.is_legal accepts a destination exactly when it holds no
\* friendly piece and either lies on the Chariot's rank or file with every
\* square between empty, or lies on the same diagonal of one palace: corner
\* and centre, or opposite corners with the centre empty.
ChariotMoves ==
    request.call = "Piece.is_legal" /\ get_name[PieceAt(request.source)] = "CH" =>
        \A destination \in Squares :
            destination \in result <=> ChariotRule(request.source, destination)

\* A Chariot on a corner of a palace was asked and may go to the opposite
\* corner over the empty centre; on some rank or file a piece stands between
\* it and an empty square, which it may not go to.
ChariotMovesWitness ==
    /\ request.call = "Piece.is_legal"
    /\ get_name[PieceAt(request.source)] = "CH"
    /\ \E destination \in result :
           /\ OnOneDiagonal(request.source, destination)
           /\ Between(request.source, destination) # {}
    /\ \E destination \in Squares \ result :
           /\ PieceAt(destination) = None
           /\ OnOneLine(request.source, destination)


\* The rows a Soldier of a colour advances by one step: blue toward row 1,
\* red toward row 10.
Forward(color) == IF color = "blue" THEN -1 ELSE 1

\* What C23 allows a Soldier on the source: one square straight forward, one
\* square sideways, or one step forward between a corner and the centre of a
\* palace, never onto a friendly piece.
SoldierRule(source, destination) ==
    /\ ~Friendly(source, destination)
    /\ \/ /\ Rows(source, destination) = Forward(get_owner[PieceAt(source)])
          /\ Columns(source, destination) = 0
       \/ /\ Rows(source, destination) = 0
          /\ Abs(Columns(source, destination)) = 1
       \/ /\ Rows(source, destination) = Forward(get_owner[PieceAt(source)])
          /\ Abs(Columns(source, destination)) = 1
          /\ \E color \in Colors :
                 /\ PalaceCentre(color) \in {source, destination}
                 /\ {source, destination} \subseteq
                        PalaceCornersOf(color) \cup {PalaceCentre(color)}

Step(square, rows, columns) ==
    encode_location(CellOf[square][1] + rows, CellOf[square][2] + columns)

\* Whether one of the two distances is the longer and the other the shorter
\* of a shape.
Shaped(source, destination, longer, shorter) ==
    {Abs(Rows(source, destination)), Abs(Columns(source, destination))}
        = {longer, shorter}

\* The square next to the source on the way of the longer distance.
FirstStep(source, destination) ==
    IF Abs(Rows(source, destination)) > Abs(Columns(source, destination))
    THEN Step(source, Sign(Rows(source, destination)), 0)
    ELSE Step(source, 0, Sign(Columns(source, destination)))

\* The square one diagonal step toward the destination after the first.
SecondStep(source, destination) ==
    Step(FirstStep(source, destination),
         Sign(Rows(source, destination)), Sign(Columns(source, destination)))

\* What C25 says of a Horse on the source and a destination.
HorseRule(source, destination) ==
    /\ Shaped(source, destination, 2, 1)
    /\ PieceAt(FirstStep(source, destination)) = None
    /\ ~Friendly(source, destination)

\* C25: Horse.is_legal accepts a destination exactly when it lies 2 along one
\* axis and 1 along the other, the square next to the Horse in the direction
\* of the 2 is empty, and the destination holds no friendly piece.
HorseMoves ==
    request.call = "Piece.is_legal" /\ get_name[PieceAt(request.source)] = "HO" =>
        \A destination \in Squares :
            destination \in result <=> HorseRule(request.source, destination)

\* A Horse was asked: it may capture an opposing piece, and an empty square of
\* the right shape is refused because a piece stands next to the Horse.
HorseMovesWitness ==
    /\ request.call = "Piece.is_legal"
    /\ get_name[PieceAt(request.source)] = "HO"
    /\ \E destination \in result :
           /\ PieceAt(destination) # None
           /\ get_owner[PieceAt(destination)] # get_owner[PieceAt(request.source)]
    /\ \E destination \in Squares \ result :
           /\ PieceAt(destination) = None
           /\ Shaped(request.source, destination, 2, 1)

\* What C26 says of an Elephant on the source and a destination.
ElephantRule(source, destination) ==
    /\ Shaped(source, destination, 3, 2)
    /\ PieceAt(FirstStep(source, destination)) = None
    /\ PieceAt(SecondStep(source, destination)) = None
    /\ ~Friendly(source, destination)

\* C26: Elephant.is_legal accepts a destination exactly when it lies 3 along
\* one axis and 2 along the other, the square one orthogonal step along the 3
\* and the square one diagonal step further are both empty, and the
\* destination holds no friendly piece; an opposing piece there is accepted.
ElephantMoves ==
    request.call = "Piece.is_legal" /\ get_name[PieceAt(request.source)] = "EL" =>
        \A destination \in Squares :
            destination \in result <=> ElephantRule(request.source, destination)

\* An Elephant was asked: it may capture an opposing piece, and an empty
\* square of the right shape is refused although the square next to the
\* Elephant is empty, because a piece stands on the second square of the way.
ElephantMovesWitness ==
    /\ request.call = "Piece.is_legal"
    /\ get_name[PieceAt(request.source)] = "EL"
    /\ \E destination \in result :
           /\ PieceAt(destination) # None
           /\ get_owner[PieceAt(destination)] # get_owner[PieceAt(request.source)]
    /\ \E destination \in Squares \ result :
           /\ PieceAt(destination) = None
           /\ Shaped(request.source, destination, 3, 2)
           /\ PieceAt(FirstStep(request.source, destination)) = None


\* What C24 says of a General or a Guard on the source and a destination.
GeneralRule(source, destination) ==
    /\ destination \in PalaceOf(get_owner[PieceAt(source)])
    /\ Abs(Rows(source, destination)) <= 1
    /\ Abs(Columns(source, destination)) <= 1
    /\ ~Friendly(source, destination)
    /\ OnOneDiagonal(source, destination) =>
           \/ /\ source \in PalaceCornersOf(get_owner[PieceAt(source)])
              /\ destination = PalaceCentre(get_owner[PieceAt(source)])
           \/ /\ source = PalaceCentre(get_owner[PieceAt(source)])
              /\ destination \in PalaceCornersOf(get_owner[PieceAt(source)])

\* C24: the rule of a General or a Guard accepts a destination exactly when
\* it lies in the palace of the piece's colour, at most one row and one
\* column away, holds no friendly piece and, for a diagonal step, is the
\* centre of that palace from a corner or a corner from the centre; and every
\* General and Guard on the grid stands in the palace of its colour.
PalaceBound ==
    \A source \in Squares :
        PieceAt(source) # None /\ get_name[PieceAt(source)] \in {"GN", "GD"} =>
            /\ source \in PalaceOf(get_owner[PieceAt(source)])
            /\ \A destination \in Squares :
                   Piece_is_legal(Game.bd, PieceAt(source), source, destination)
                       <=> GeneralRule(source, destination)

\* After an accepted move a General stands on a corner of its palace, from
\* where the centre is accepted, and a Guard stands on the edge of its palace
\* next to an empty square outside it.
PalaceBoundWitness ==
    /\ Relocated
    /\ \E source \in Squares :
           /\ PieceAt(source) # None
           /\ get_name[PieceAt(source)] = "GN"
           /\ source \in PalaceCornersOf(get_owner[PieceAt(source)])
           /\ Piece_is_legal(Game.bd, PieceAt(source), source,
                             PalaceCentre(get_owner[PieceAt(source)]))
    /\ \E source \in Squares, destination \in Squares \ palace :
           /\ PieceAt(source) # None
           /\ get_name[PieceAt(source)] = "GD"
           /\ PieceAt(destination) = None
           /\ Rows(source, destination) = 0
           /\ Abs(Columns(source, destination)) = 1


\* No piece on the grid may, by its own rule, move to its own square or to a
\* square that holds a piece of its colour.
NoFriendlyDestination ==
    \A source \in Squares, destination \in Squares :
        /\ PieceAt(source) # None
        /\ source = destination \/ Friendly(source, destination)
        => ~Piece_is_legal(Game.bd, PieceAt(source), source, destination)

\* C27: for every kind of piece the movement rule refuses the piece's own
\* square and every square that holds a piece of the same colour, and an
\* accepted make_move leaves every piece of the mover with the mover.
NoFriendlyCapture ==
    /\ []NoFriendlyDestination
    /\ [][request'.call = "make_move" /\ result' = "True" =>
            CartSet'[current_player] = CartSet[current_player]]_vars

\* The player to move asked for a move onto one of its own pieces, which the
\* piece's rule and make_move refused.
NoFriendlyCaptureWitness ==
    /\ request.call = "make_move"
    /\ ~request.pass
    /\ request.source = "mine"
    /\ request.destination = "mine"
    /\ ~request.rule
    /\ result = "False"


\* C28: is_in_checkmate returns False for a colour that is not in check; and
\* whenever the game state names a winner, the other colour is the colour to
\* move and some piece of the winner may, by its own rule, move to the
\* loser's General.
MateOnlyInCheck ==
    /\ \A color \in Colors :
           ~is_in_check(Game.bd, color) => ~is_in_checkmate(Game.bd, color).ret
    /\ \A color \in Colors :
           game_state = Won(color) =>
               /\ current_player = other_player(color)
               /\ Attacked(other_player(color))

\* Red has just won by a move that relocated a piece; blue, not attacking the
\* red General, is the loser.
MateOnlyInCheckWitness ==
    /\ Relocated
    /\ game_state = "RED_WON"
    /\ ~is_in_check(Game.bd, "red")


\* The moves of a colour that Board.is_legal accepts: a piece of the colour on
\* the source and a different destination.
LegalMoves(color) ==
    {m \in Squares \X Squares :
        /\ m[1] # m[2]
        /\ PieceAt(m[1]) # None
        /\ get_owner[PieceAt(m[1])] = color
        /\ Board_is_legal(Game.bd, m[1], m[2]).ret}

\* C29: whenever the game state names a winner, Board.is_legal accepts no
\* move of a piece of the other colour to a different square.
GenuineMate ==
    \A color \in Colors :
        game_state = Won(color) => LegalMoves(other_player(color)) = {}


\* C30: in every unfinished game some make_move request of the colour to move
\* returns True; and if that colour is in check and is_in_checkmate is False
\* for it, Board.is_legal accepts a move of one of its pieces to a different
\* square.
NeverStuck ==
    game_state = "UNFINISHED" =>
        /\ \E source \in Squares, destination \in Squares :
               make_move(Game, source, destination).ret = "True"
        /\ /\ is_in_check(Game.bd, current_player)
           /\ ~is_in_checkmate(Game.bd, current_player).ret
           => LegalMoves(current_player) # {}

\* In the middle of a replayed game the player to move was in check, so that
\* the interactive caller took over, and its request relocated a piece and
\* returned True; the game goes on with the other player not in check.
NeverStuckWitness ==
    /\ Relocated
    /\ free = 1
    /\ driver # "none"
    /\ pos < Len(Scripts[driver])
    /\ game_state = "UNFINISHED"
    /\ ~is_in_check(Game.bd, current_player)


\* C31: in every state between calls no piece of the colour to move may, by
\* its own rule, move to the General of the colour that is not to move.
WaitingSideSafe ==
    ~Attacked(other_player(current_player))

\* The player to move is in check in an unfinished game, after a move of the
\* other player that relocated a piece and left that player's General safe.
WaitingSideSafeWitness ==
    /\ Relocated
    /\ game_state = "UNFINISHED"
    /\ Attacked(current_player)
    /\ ~Attacked(other_player(current_player))


\* A board value as a call must leave it: the buffer empty, no temporary move
\* pending, and no temporary move prepared while another was pending or the
\* buffer full.
Settled(bd) == bd.temp = None /\ bd.tries = 0 /\ ~bd.nested

\* C32: the buffer is empty in every state between calls; and Board.is_legal,
\* for every occupied source and every destination, and is_in_checkmate, for
\* either colour, never prepare a temporary move while another is pending or
\* the buffer is full, and return with the buffer empty and nothing pending.
TempMovesDoNotNest ==
    /\ temp = None
    /\ \A source \in Squares, destination \in Squares :
           PieceAt(source) # None =>
               Settled(Board_is_legal(Game.bd, source, destination).bd)
    /\ \A color \in Colors : Settled(is_in_checkmate(Game.bd, color).bd)

\* The player to move is in check and no capture or block answers it, so that
\* is_in_checkmate goes on to try the steps of the General, after all the
\* temporary moves of its calls of Board.is_legal; a step gets the General
\* out of check.
TempMovesDoNotNestWitness ==
    /\ Relocated
    /\ game_state = "UNFINISHED"
    /\ is_in_check(Game.bd, current_player)
    /\ LET general == get_general(Game.bd, current_player)
       IN  /\ \A source \in Squares, destination \in Squares :
                  /\ PieceAt(source) # None
                  /\ PieceAt(source) # general
                  /\ get_owner[PieceAt(source)] = current_player
                  => ~Board_is_legal(Game.bd, source, destination).ret
           /\ \E destination \in Squares :
                  Board_is_legal(Game.bd, location[general], destination).ret


\* Whether two board values have the same grid, the same stored locations and,
\* for each colour, the same pieces in the cart, each as many times.
SameBoard(a, b) ==
    /\ a.board = b.board
    /\ a.location = b.location
    /\ \A color \in Colors :
           /\ Len(a.cart[color]) = Len(b.cart[color])
           /\ {a.cart[color][k] : k \in 1..Len(a.cart[color])}
                  = {b.cart[color][k] : k \in 1..Len(b.cart[color])}

\* The board values is_in_checkmate is called on from the state: the board
\* after each move of the colour to move that Board.is_legal accepts, with
\* the colour it is called for.
MateSearches ==
    {[bd |-> move_piece(Game.bd, m[1], m[2]), color |-> other_player(current_player)] :
        m \in IF game_state = "UNFINISHED" THEN LegalMoves(current_player) ELSE {}}

\* C33: is_in_checkmate, whatever it returns, leaves the grid, every stored
\* location and both players' sets of pieces as they were before the call.
MateSearchLeavesBoard ==
    \A search \in MateSearches :
        SameBoard(is_in_checkmate(search.bd, search.color).bd, search.bd)

\* From this state one accepted move is a mate and another gives a check that
\* is not a mate; in one of the searches a piece taken by a temporary move
\* was put back at the end of its owner's cart.
MateSearchLeavesBoardWitness ==
    /\ \E search \in MateSearches : is_in_checkmate(search.bd, search.color).ret
    /\ \E search \in MateSearches :
           /\ is_in_check(search.bd, search.color)
           /\ ~is_in_checkmate(search.bd, search.color).ret
    /\ \E search \in MateSearches :
           is_in_checkmate(search.bd, search.color).bd.cart # search.bd.cart


\* A cart in the opposite order, and a cart whose first piece was taken out
\* and appended again.
Reversed(list) == [k \in 1..Len(list) |-> list[Len(list) + 1 - k]]

Reappended(list) == IF Len(list) = 0 THEN list ELSE Tail(list) \o <<Head(list)>>

\* The game of the state with the same pieces in the carts in other orders.
Reordered ==
    {[Game EXCEPT !.bd.cart = [color \in Colors |-> Reversed(cart[color])]],
     [Game EXCEPT !.bd.cart = [color \in Colors |-> Reappended(cart[color])]],
     [Game EXCEPT !.bd.cart = [color \in Colors |->
                                  IF color = "blue" THEN Reversed(cart[color])
                                  ELSE Reappended(cart[color])]]}

\* Whether two results of make_move have the same returned value, grid, turn
\* and game state.
SameOutcome(a, b) ==
    /\ a.ret = b.ret
    /\ a.game.bd.board = b.game.bd.board
    /\ a.game.current_player = b.game.current_player
    /\ a.game.game_state = b.game.game_state

\* C34: for every request about a piece of the colour to move (its own square
\* included, which is a pass), make_move returns the same value and leaves the
\* same grid, turn and game state whichever order the carts hold their pieces
\* in.
CartOrderIrrelevant ==
    \A source \in Squares, destination \in Squares :
        PieceAt(source) # None /\ get_owner[PieceAt(source)] = current_player =>
            \A game \in Reordered :
                SameOutcome(make_move(game, source, destination),
                            make_move(Game, source, destination))

\* The carts of the state are no longer in the order of the opening position
\* (a temporary capture was undone), and a request from it ends the game.
CartOrderIrrelevantWitness ==
    /\ cart # new_game.bd.cart
    /\ \A color \in Colors : Len(cart[color]) = 16
    /\ game_state = "UNFINISHED"
    /\ \E source \in Squares, destination \in Squares :
           /\ PieceAt(source) # None
           /\ get_owner[PieceAt(source)] = current_player
           /\ make_move(Game, source, destination).game.game_state # "UNFINISHED"


\* The Soldiers, and the row (0 for row 1) of a piece's stored location.
Soldiers == {p \in PieceIds : get_name[p] = "SD"}

RowOf(p) == CellOf[location[p]][1]

\* C35: every blue Soldier stands on row 7 or nearer to row 1, every red
\* Soldier on row 4 or nearer to row 10, and no step moves a Soldier to a row
\* behind the one it stands on.
SoldiersNeverRetreat ==
    /\ [](\A p \in Soldiers : (RowOf(p) - CellOf[InitialLayout[p]][1])
                                  * Forward(get_owner[p]) >= 0)
    /\ [][\A p \in Soldiers : (RowOf(p)' - RowOf(p)) * Forward(get_owner[p]) >= 0]_vars

\* After an accepted move a blue Soldier stands in front of row 7 and a red
\* Soldier in front of row 4, both on the grid.
SoldiersNeverRetreatWitness ==
    /\ Relocated
    /\ \E p \in Soldiers :
           get_owner[p] = "blue" /\ PieceAt(location[p]) = p /\ RowOf(p) < 6
    /\ \E p \in Soldiers :
           get_owner[p] = "red" /\ PieceAt(location[p]) = p /\ RowOf(p) > 3


\* The squares a piece of a kind passes on its way from a source to a
\* destination its rule allows, in order from the source: none for a General,
\* a Guard and a Soldier, the first step for a Horse, the first and the second
\* for an Elephant, and the squares between the two on the rank, file or
\* diagonal for a Chariot and a Cannon.
Route(name, source, destination) ==
    CASE name \in {"GN", "GD", "SD"} -> <<>>
      [] name = "HO" -> <<FirstStep(source, destination)>>
      [] name = "EL" -> <<FirstStep(source, destination),
                          SecondStep(source, destination)>>
      [] name \in {"CH", "CA"} ->
             [k \in 1..Cardinality(Between(source, destination)) |->
                 Step(source, k * Sign(Rows(source, destination)),
                              k * Sign(Columns(source, destination)))]

\* The moves the pieces on the grid may make by their own rules.
RuleMoves ==
    {m \in Squares \X Squares :
        /\ PieceAt(m[1]) # None
        /\ Piece_is_legal(Game.bd, PieceAt(m[1]), m[1], m[2])}

\* What move_path gives for the piece on the source of a move.
MovePath(m) == Piece_move_path(PieceAt(m[1]), m[1], m[2])

\* C36: for every piece on the grid and every destination its rule allows,
\* move_path gives the squares of the piece's way strictly between the two,
\* in order from the source: squares of the board, neither the source nor the
\* destination, and none for a General, a Guard or a Soldier or when the two
\* squares are next to each other on a rank, a file or a palace diagonal.
PathsLieBetween ==
    \A m \in RuleMoves :
        /\ MovePath(m) = Route(get_name[PieceAt(m[1])], m[1], m[2])
        /\ \A k \in 1..Len(MovePath(m)) : MovePath(m)[k] \in Squares \ {m[1], m[2]}
        /\ \/ get_name[PieceAt(m[1])] \in {"GN", "GD", "SD"}
           \/ Abs(Rows(m[1], m[2])) <= 1 /\ Abs(Columns(m[1], m[2])) <= 1
           => MovePath(m) = <<>>

\* On one grid a Chariot may go from a corner of a palace to the opposite
\* corner, a Cannon may jump along a line, and a Horse and an Elephant may
\* move.
PathsLieBetweenWitness ==
    /\ \E m \in RuleMoves :
           /\ get_name[PieceAt(m[1])] = "CH"
           /\ OnOneDiagonal(m[1], m[2])
           /\ MovePath(m) # <<>>
    /\ \E m \in RuleMoves : get_name[PieceAt(m[1])] = "CA"
    /\ \E m \in RuleMoves : get_name[PieceAt(m[1])] = "HO"
    /\ \E m \in RuleMoves : get_name[PieceAt(m[1])] = "EL"


\* The most temporary moves one make_move call can prepare: one in its call
\* of Board.is_legal; in is_in_checkmate one for each of the at most 16 pieces
\* of the opponent's cart, for each attacker (at most 16) one for each of the
\* at most 16 pieces of the player's cart on the attacker's square and on each
\* of the at most 8 squares of its path, and one for each of the 9 squares of
\* the palace.
MaxSimulations == 1 + 16 + 16 * (16 + 8 * 16) + 9

\* C37: in every state, for every source and destination of the board,
\* make_move returns True or False, having prepared no more temporary moves
\* than the carts, the paths and the palace allow.
MoveReturns ==
    \A source \in Squares, destination \in Squares :
        LET returned(made) ==
                /\ made.ret \in {"True", "False"}
                /\ made.game.bd.prepared <= MaxSimulations
        IN  returned(make_move(Game, source, destination))

\* A request has just ended the game: its checkmate search went through the
\* attackers, their paths and the palace, prepared three temporary moves or
\* more and returned.
MoveReturnsWitness ==
    /\ Relocated
    /\ game_state # "UNFINISHED"
    /\ is_in_checkmate(Game.bd, current_player).bd.prepared > 2

====
